---- MODULE Spec2Model ----
(***************************************************************************)
(* A model of the pig-personality-test analysis path:                      *)
(*   - lib/azure/content-understanding.ts: analyzeImage, its submit / poll *)
(*     / wait protocol, alone and as two calls side by side, and the two   *)
(*     copies of transformToDetection the file holds (lines 239-350,       *)
(*     custom analyzer fields only, and lines 629-815, detected objects    *)
(*     plus fields plus DetectedRegions);                                  *)
(*   - lib/scoring/pigRules.ts: analyzePigDrawing, its six rules and       *)
(*     generateSummary;                                                    *)
(*   - isPigDescription, the validator of the description;                 *)
(*   - app/api/analyze/route.ts: POST, its token bucket per IP and its     *)
(*     steps from analyzeImage to saveResult;                              *)
(*   - app/group: the participants of the group page and the legs tally    *)
(*     of the group results page.                                          *)
(* Strings that the code searches or splits are tuples of one-character    *)
(* strings; numbers that may be fractional are rationals [n, d]; d = 0     *)
(* stands for Infinity (n > 0), -Infinity (n < 0) and NaN (n = 0).         *)
(***************************************************************************)
EXTENDS Integers, Sequences, FiniteSets, TLC

VARIABLES
    rev,            \* which copy of transformToDetection the build holds (1 or 2)
    config,         \* CONTENT_UNDERSTANDING_ENDPOINT / _KEY present
    imageUrl,       \* options.imageUrl
    pc,             \* where the analyzeImage call is suspended
    submitHeaders,  \* the submit response analyzeImage got (history)
    requestId,      \* the job id pollForResults polls
    attempt,        \* the loop counter of pollForResults
    submitRequests, \* POSTs issued (history)
    statusRequests, \* GETs issued (history)
    elapsedMs,      \* time spent in setTimeout waits (history)
    nonTerminal,    \* status responses that were neither Succeeded nor Failed
    response,       \* the last status response received
    outcome,        \* what analyzeImage returned or threw
    pigDetection,   \* the Detection handed to analyzePigDrawing
    traits,         \* the trait list analyzePigDrawing returned
    summary,        \* the text generateSummary returned
    isPig,          \* what isPigDescription returned
    saved,          \* the results saveResult has persisted, oldest first
    httpResponse,   \* the response POST /api/analyze returned
    calls,          \* the locals of the analyzeImage calls in flight side by side
    participants,   \* the GroupParticipants of the group page, oldest first
    tallies,        \* what calculateTallies has set on the group results page
    rateLimitMap,   \* route.ts rateLimitMap: the bucket of each IP seen
    now,            \* Date.now()
    admitted,       \* per IP: requests let through since its bucket was last filled (history)
    lastRequest     \* the last request the limiter has seen and what it did with it (history)

\* the variables beyond the single analyzeImage call and the rules engine
groupVars == <<participants, tallies>>

limiterVars == <<rateLimitMap, now, admitted, lastRequest>>

\* the variables beside those of one request of the route
sideVars == <<calls, groupVars, limiterVars>>

routeVars == <<summary, isPig, saved, httpResponse, sideVars>>

\* the variables of analyzeImage other than its position and its outcome
protocolVars == <<rev, config, imageUrl, submitHeaders, requestId, attempt, submitRequests,
                  statusRequests, elapsedMs, nonTerminal, response>>

coreVars == <<protocolVars, outcome>>

vars == <<rev, config, imageUrl, pc, submitHeaders, requestId, attempt,
          submitRequests, statusRequests, elapsedMs, nonTerminal, response, outcome,
          pigDetection, traits, routeVars>>

----------------------------------------------------------------------------
(* Optional values: <<>> is undefined / null, <<v>> is v.                  *)

None == <<>>

Some(v) == <<v>>

IsSome(o) == o # <<>>

Get(o) == o[1]

\* no request of POST /api/analyze has got past the analysis core
GroupIdle == participants = <<>> /\ tallies = None

LimiterIdle == rateLimitMap = <<>> /\ now = 0 /\ admitted = <<>> /\ lastRequest = None

RouteIdle ==
    /\ summary = None /\ isPig = None /\ saved = <<>> /\ httpResponse = None /\ calls = <<>>
    /\ GroupIdle /\ LimiterIdle

----------------------------------------------------------------------------
(* Strings as character tuples.                                            *)

UpperChars == <<"A","B","C","D","E","F","G","H","I","J","K","L","M",
                "N","O","P","Q","R","S","T","U","V","W","X","Y","Z">>

LowerChars == <<"a","b","c","d","e","f","g","h","i","j","k","l","m",
                "n","o","p","q","r","s","t","u","v","w","x","y","z">>

LowerChar(c) ==
    IF \E i \in DOMAIN UpperChars : UpperChars[i] = c
    THEN LowerChars[CHOOSE i \in DOMAIN UpperChars : UpperChars[i] = c]
    ELSE c

\* String.prototype.toLowerCase
toLowerCase(s) == [i \in 1..Len(s) |-> LowerChar(s[i])]

\* String.prototype.includes
includes(s, sub) ==
    \E i \in 1..(Len(s) - Len(sub) + 1) : SubSeq(s, i, i + Len(sub) - 1) = sub

\* s.split(sep).pop(): what follows the last sep (all of s when there is none)
AfterLast(s, sep) ==
    IF \E i \in 1..Len(s) : s[i] = sep
    THEN LET k == CHOOSE i \in 1..Len(s) :
                     s[i] = sep /\ \A j \in (i+1)..Len(s) : s[j] # sep
         IN  SubSeq(s, k + 1, Len(s))
    ELSE s

\* s.split(sep)[0]: what precedes the first sep (all of s when there is none)
BeforeFirst(s, sep) ==
    IF \E i \in 1..Len(s) : s[i] = sep
    THEN LET k == CHOOSE i \in 1..Len(s) :
                     s[i] = sep /\ \A j \in 1..(i-1) : s[j] # sep
         IN  SubSeq(s, 1, k - 1)
    ELSE s

sHead == <<"h", "e", "a", "d">>
sFace == <<"f", "a", "c", "e">>
sBody == <<"b", "o", "d", "y">>
sTorso == <<"t", "o", "r", "s", "o">>
sLeg == <<"l", "e", "g">>
sFoot == <<"f", "o", "o", "t">>
sEar == <<"e", "a", "r">>
sTail == <<"t", "a", "i", "l">>

----------------------------------------------------------------------------
(* JavaScript values of the analyzer payload.                              *)
(* A primitive is [t, n, d, s]: t = "undef", "num" (the rational n/d),     *)
(* "str" (the characters s), or "obj" (some object: truthy, no type test   *)
(* of the code accepts it).                                                *)

Undef == [t |-> "undef", n |-> 0, d |-> 1, s |-> <<>>]

Num(a, b) == [t |-> "num", n |-> a, d |-> b, s |-> <<>>]

Str(x) == [t |-> "str", n |-> 0, d |-> 1, s |-> x]

ObjVal == [t |-> "obj", n |-> 0, d |-> 1, s |-> <<>>]

\* ToBoolean
Truthy(v) ==
    \/ v.t = "num" /\ v.n # 0
    \/ v.t = "str" /\ v.s # <<>>
    \/ v.t = "obj"

\* a || b
Or(a, b) == IF Truthy(a) THEN a ELSE b

\* a ?? b
Coalesce(a, b) == IF a.t = "undef" THEN b ELSE a

IsNumber(v) == v.t = "num"

IsString(v) == v.t = "str"

\* v > 0 for a number v
Positive(v) == v.n > 0

\* new Array(len) throws a RangeError unless len is an integer in 0 .. 2^32 - 1
\* (every number of the model is far below 2^32)
ValidArrayLength(v) ==
    /\ v.n % v.d = 0
    /\ v.n >= 0

(* A field of contents[0].fields: absent, a bare primitive, or an object   *)
(* with the members valueString, valueNumber and value (each possibly      *)
(* undefined).                                                             *)
NoField == [k |-> "undef", bare |-> Undef,
            valueString |-> Undef, valueNumber |-> Undef, value |-> Undef]

BareField(v) == [k |-> "bare", bare |-> v,
                 valueString |-> Undef, valueNumber |-> Undef, value |-> Undef]

ObjField(vs, vn, v) == [k |-> "obj", bare |-> Undef,
                        valueString |-> vs, valueNumber |-> vn, value |-> v]

\* fields.F as a value
FieldValue(f) ==
    CASE f.k = "undef" -> Undef
      [] f.k = "bare"  -> f.bare
      [] OTHER         -> ObjVal

\* fields.F?.valueString (a primitive has no such member)
ValueString(f) == IF f.k = "obj" THEN f.valueString ELSE Undef

\* fields.F?.valueNumber
ValueNumber(f) == IF f.k = "obj" THEN f.valueNumber ELSE Undef

\* fields.F?.value
Value(f) == IF f.k = "obj" THEN f.value ELSE Undef

----------------------------------------------------------------------------
(* The Detection model (lib/types.ts).                                     *)

Box(a, b, w, h) == [x |-> a, y |-> b, width |-> w, height |-> h]

\* a DetectionRegion; a member the object lacks is None / Undef
Region(box, conf, cat) == [boundingBox |-> box, confidence |-> conf, category |-> cat]

\* ({} as any)
EmptyObject == Region(None, Undef, None)

DEFAULT_CANVAS == 1000

Max2(a, b) == IF a >= b THEN a ELSE b

SeqRange(s) == {s[i] : i \in 1..Len(s)}

MinOf(S) == CHOOSE m \in S : \A v \in S : m <= v

MaxOf(S) == CHOOSE m \in S : \A v \in S : m >= v

\* Array.prototype.find: the first element that passes, else undefined
Find(s, Test(_)) ==
    IF \E i \in 1..Len(s) : Test(s[i])
    THEN Some(s[CHOOSE i \in 1..Len(s) : Test(s[i]) /\ \A j \in 1..(i-1) : ~Test(s[j])])
    ELSE None

\* Array.prototype.filter
Filter(s, Test(_)) == SelectSeq(s, Test)

\* the width and height taken for the far corner, not for the extent
calculateOverallBoundingBoxNoOffset(boxes) ==
    IF Len(boxes) = 0 THEN None
    ELSE LET minX == MinOf({boxes[i].x : i \in 1..Len(boxes)})
             minY == MinOf({boxes[i].y : i \in 1..Len(boxes)})
             maxX == MaxOf({boxes[i].x + boxes[i].width : i \in 1..Len(boxes)})
             maxY == MaxOf({boxes[i].y + boxes[i].height : i \in 1..Len(boxes)})
         IN  Some(Box(minX, minY, maxX, maxY))

\* union of the boxes: null for none
calculateOverallBoundingBox(boxes) ==
    IF Len(boxes) = 0 THEN None
    ELSE LET minX == MinOf({boxes[i].x : i \in 1..Len(boxes)})
             minY == MinOf({boxes[i].y : i \in 1..Len(boxes)})
             maxX == MaxOf({boxes[i].x + boxes[i].width : i \in 1..Len(boxes)})
             maxY == MaxOf({boxes[i].y + boxes[i].height : i \in 1..Len(boxes)})
         IN  Some(Box(minX, minY, maxX - minX, maxY - minY))

\* what a transform produced: a Detection, or the error it threw
Returned(d) == [ok |-> TRUE, error |-> "", detection |-> Some(d)]

Threw(e) == [ok |-> FALSE, error |-> e, detection |-> None]

\* descriptionConfidence = description ? 0.95 : undefined
DescriptionConfidence(description) ==
    IF Truthy(description) THEN Num(95, 100) ELSE Undef

\* the placeholder regions of the first copy
PlaceholderRegion(cat) == Region(Some(Box(0, 0, 0, 0)), Num(9, 10), Some(cat))

\* new Array(n).fill(null).map(() => item), for a valid length n
ArrayOf(v, item) == [i \in 1..(v.n \div v.d) |-> item]

----------------------------------------------------------------------------
(* transformToDetection, first copy (lines 239-350): custom analyzer       *)
(* fields only.                                                            *)

DefaultDetection(detailCount, description) ==
    [ head |-> None, body |-> None, legs |-> None, ears |-> None, tail |-> None,
      overall |-> [boundingBox |-> Box(0, 0, DEFAULT_CANVAS, DEFAULT_CANVAS),
                   canvas |-> [width |-> DEFAULT_CANVAS, height |-> DEFAULT_CANVAS]],
      detailCount |-> detailCount,
      description |-> description,
      descriptionConfidence |-> DescriptionConfidence(description),
      verticalPlacement |-> Undef, orientation |-> Undef, legCount |-> Undef,
      earSize |-> Undef, tailLength |-> Undef ]

\* lines 299-315: may throw
legCountThrows1(fields) ==
    LET legCount == ValueNumber(fields.LegCount)
    IN  IsNumber(legCount) /\ Positive(legCount) /\ ~ValidArrayLength(legCount)

WithFields1(detection, fields) ==
    LET verticalPlacement == ValueString(fields.VerticalPlacement)
        orientation == ValueString(fields.Orientation)
        legCount == ValueNumber(fields.LegCount)
        earSize == ValueString(fields.EarSize)
        tailLength == ValueNumber(fields.TailLength)
        d1 == IF Truthy(verticalPlacement)
              THEN [detection EXCEPT !.verticalPlacement = verticalPlacement]
              ELSE detection
        d2 == IF Truthy(orientation) THEN [d1 EXCEPT !.orientation = orientation] ELSE d1
        d3 == IF IsNumber(legCount)
              THEN [d2 EXCEPT !.legCount = legCount,
                              !.legs = IF Positive(legCount)
                                       THEN Some(ArrayOf(legCount, PlaceholderRegion(sLeg)))
                                       ELSE Some(<<>>)]
              ELSE d2
        d4 == IF Truthy(earSize)
              THEN [d3 EXCEPT !.earSize = earSize,
                              !.ears = Some(<<PlaceholderRegion(sEar), PlaceholderRegion(sEar)>>)]
              ELSE d3
        d5 == IF IsNumber(tailLength)
              THEN [d4 EXCEPT !.tailLength = tailLength,
                              !.tail = IF Positive(tailLength)
                                       THEN Some(PlaceholderRegion(sTail))
                                       ELSE d4.tail]
              ELSE d4
    IN  d5

transformToDetection1(resp) ==
    IF ~IsSome(resp.result) THEN Threw("NoResult")
    ELSE LET result == Get(resp.result)
             hasFields == IsSome(result.fields)
             description == IF hasFields
                            THEN ValueString(Get(result.fields).ImageDescription)
                            ELSE Undef
             detailCount == IF hasFields
                            THEN Coalesce(ValueNumber(Get(result.fields).DetailCount), Num(0, 1))
                            ELSE Num(0, 1)
             detection == DefaultDetection(detailCount, description)
         IN  IF ~hasFields THEN Returned(detection)
             ELSE IF legCountThrows1(Get(result.fields)) THEN Threw("RangeError")
             ELSE Returned(WithFields1(detection, Get(result.fields)))

----------------------------------------------------------------------------
(* transformToDetection, second copy (lines 629-815): detected objects,    *)
(* then the custom analyzer fields, then fields.DetectedRegions.           *)

\* obj.category.toLowerCase().includes(word)
CategoryHas(obj, word) == includes(toLowerCase(Get(obj.category)), word)

\* o.category?.toLowerCase().includes(word): undefined (falsy) without a category
CategoryHasOpt(o, word) == IsSome(o.category) /\ CategoryHas(o, word)

IsHead(obj) == CategoryHas(obj, sHead) \/ CategoryHas(obj, sFace)

IsBody(obj) == CategoryHas(obj, sBody) \/ CategoryHas(obj, sTorso)

IsLeg(obj) == CategoryHas(obj, sLeg) \/ CategoryHas(obj, sFoot)

IsEar(obj) == CategoryHas(obj, sEar)

IsTail(obj) == CategoryHas(obj, sTail)

IsHeadR(o) == CategoryHasOpt(o, sHead)

IsBodyR(o) == CategoryHasOpt(o, sBody)

IsLegR(o) == CategoryHasOpt(o, sLeg)

IsEarR(o) == CategoryHasOpt(o, sEar)

IsTailR(o) == CategoryHasOpt(o, sTail)

\* lines 654-724: the Detection built from result.objects
DetectionFromObjects(objects, description) ==
    LET allBoxes == [i \in 1..Len(objects) |-> Get(objects[i].boundingBox)]
        overallBox == calculateOverallBoundingBox(allBoxes)
        grow == IsSome(overallBox) /\ Len(objects) > 0
        canvasWidth == IF grow
                       THEN Max2(Get(overallBox).x + Get(overallBox).width, DEFAULT_CANVAS)
                       ELSE DEFAULT_CANVAS
        canvasHeight == IF grow
                        THEN Max2(Get(overallBox).y + Get(overallBox).height, DEFAULT_CANVAS)
                        ELSE DEFAULT_CANVAS
    IN  [ head |-> Find(objects, IsHead),
          body |-> Find(objects, IsBody),
          legs |-> Some(Filter(objects, IsLeg)),
          ears |-> Some(Filter(objects, IsEar)),
          tail |-> Find(objects, IsTail),
          overall |-> [boundingBox |-> IF IsSome(overallBox) THEN Get(overallBox)
                                       ELSE Box(0, 0, canvasWidth, canvasHeight),
                       canvas |-> [width |-> canvasWidth, height |-> canvasHeight]],
          detailCount |-> Num(Len(objects), 1),
          description |-> description,
          descriptionConfidence |-> DescriptionConfidence(description),
          verticalPlacement |-> Undef, orientation |-> Undef, legCount |-> Undef,
          earSize |-> Undef, tailLength |-> Undef ]

\* lines 749-757: new Array(legCountField) may throw
legCountThrows2(detection, fields) ==
    LET legCountField == Or(Value(fields.LegCount), FieldValue(fields.LegCount))
    IN  /\ IsNumber(legCountField)
        /\ (~IsSome(detection.legs) \/ Len(Get(detection.legs)) = 0)
        /\ ~ValidArrayLength(legCountField)

\* lines 731-769: the scalar fields
WithFields2(detection, fields) ==
    LET vertical == Or(ValueString(fields.VerticalPlacement), FieldValue(fields.VerticalPlacement))
        orientation == Or(ValueString(fields.Orientation), FieldValue(fields.Orientation))
        detailCountField == Or(Value(fields.DetailCount), FieldValue(fields.DetailCount))
        legCountField == Or(Value(fields.LegCount), FieldValue(fields.LegCount))
        earSize == Or(ValueString(fields.EarSize), FieldValue(fields.EarSize))
        tailLen == Or(Value(fields.TailLength), FieldValue(fields.TailLength))
        d1 == IF Truthy(vertical) THEN [detection EXCEPT !.verticalPlacement = vertical]
              ELSE detection
        d2 == IF Truthy(orientation) THEN [d1 EXCEPT !.orientation = orientation] ELSE d1
        d3 == IF IsNumber(detailCountField) THEN [d2 EXCEPT !.detailCount = detailCountField]
              ELSE d2
        d4 == IF IsNumber(legCountField)
              THEN [d3 EXCEPT !.legCount = legCountField,
                              !.legs = IF ~IsSome(d3.legs) \/ Len(Get(d3.legs)) = 0
                                       THEN Some(ArrayOf(legCountField, EmptyObject))
                                       ELSE d3.legs]
              ELSE d3
        d5 == IF Truthy(earSize) THEN [d4 EXCEPT !.earSize = earSize] ELSE d4
        d6 == IF IsNumber(tailLen) \/ IsString(tailLen) THEN [d5 EXCEPT !.tailLength = tailLen]
              ELSE d5
    IN  d6

\* fields.DetectedRegions?.value || fields.DetectedRegions, when it is an array
DetectedArray(f) == IF f.k = "undef" THEN None ELSE Some(f.items)

\* lines 773-811: the regions of the custom analyzer; an element that is null
\* makes r.category throw inside the try, and the catch leaves the Detection as it was
WithDetectedRegions(detection, detectedRegions) ==
    IF \E i \in 1..Len(detectedRegions) : ~IsSome(detectedRegions[i]) THEN detection
    ELSE LET parsedRegions == [i \in 1..Len(detectedRegions) |-> Get(detectedRegions[i])]
             headR == Find(parsedRegions, IsHeadR)
             bodyR == Find(parsedRegions, IsBodyR)
             legsR == Filter(parsedRegions, IsLegR)
             earsR == Filter(parsedRegions, IsEarR)
             tailR == Find(parsedRegions, IsTailR)
             HasBox(r) == IsSome(r.boundingBox)
             withBox == Filter(parsedRegions, HasBox)
             allBoxes2 == [i \in 1..Len(withBox) |-> Get(withBox[i].boundingBox)]
             overall2 == calculateOverallBoundingBox(allBoxes2)
         IN  [ detection EXCEPT
                 !.head = IF IsSome(headR) THEN headR ELSE @,
                 !.body = IF IsSome(bodyR) THEN bodyR ELSE @,
                 !.legs = IF Len(legsR) > 0 THEN Some(legsR) ELSE @,
                 !.ears = IF Len(earsR) > 0 THEN Some(earsR) ELSE @,
                 !.tail = IF IsSome(tailR) THEN tailR ELSE @,
                 !.overall = IF IsSome(overall2)
                             THEN [boundingBox |-> Get(overall2),
                                   canvas |-> [width |-> Get(overall2).x + Get(overall2).width,
                                               height |-> Get(overall2).y + Get(overall2).height]]
                             ELSE @ ]

transformToDetection2(resp) ==
    IF ~IsSome(resp.result) THEN Threw("NoResult")
    ELSE LET result == Get(resp.result)
             objects == IF IsSome(result.objects) THEN Get(result.objects) ELSE <<>>
             hasFields == IsSome(result.fields)
             description == IF hasFields THEN ValueString(Get(result.fields).Summary)
                            ELSE Undef
             detection == DetectionFromObjects(objects, description)
         IN  IF ~hasFields THEN Returned(detection)
             ELSE IF legCountThrows2(detection, Get(result.fields)) THEN Threw("RangeError")
             ELSE LET fields == Get(result.fields)
                      d6 == WithFields2(detection, fields)
                      detectedRegions == DetectedArray(fields.DetectedRegions)
                  IN  IF IsSome(detectedRegions) /\ Len(Get(detectedRegions)) > 0
                      THEN Returned(WithDetectedRegions(d6, Get(detectedRegions)))
                      ELSE Returned(d6)

\* the check of response.result left out: a response without one gets the defaults
transformToDetectionNoCheck(r, resp) ==
    IF ~IsSome(resp.result) THEN Returned(DefaultDetection(Num(0, 1), Undef))
    ELSE IF r = 1 THEN transformToDetection1(resp) ELSE transformToDetection2(resp)

\* the copy of transformToDetection the build holds
transformToDetection(r, resp) ==
    IF r = 1 THEN transformToDetection1(resp) ELSE transformToDetection2(resp)

----------------------------------------------------------------------------
(* The analyzer payloads the model draws from.                             *)

catHead == <<"H", "e", "a", "d">>
catBody == <<"B", "O", "D", "Y">>
catLeg == <<"l", "e", "g">>
catRearLeg == <<"R", "e", "a", "r", " ", "L", "e", "g">>
catEar == <<"E", "a", "r">>
catTail == <<"t", "a", "i", "l">>
catSnout == <<"s", "n", "o", "u", "t">>
sTop == <<"T", "o", "p">>
sLeft == <<"L", "e", "f", "t">>
sLarge == <<"L", "a", "r", "g", "e">>
sLong == <<"L", "o", "n", "g">>
descPig == <<"a", " ", "p", "i", "g">>

MaxObjects == 2

MaxDetected == 2

Categories == {catHead, catBody, catLeg, catRearLeg, catEar, catTail, catSnout}

\* well-formed, degenerate (negative width, zero height) and beyond the default canvas
Boxes == {Box(0, 0, 2, 2), Box(3, 1, 2, 4), Box(4, 4, -1, 0), Box(990, 998, 20, 1)}

Confidence == Num(9, 10)

\* result.objects entries: category, boundingBox and confidence are all there
Objects == {Region(Some(b), Confidence, Some(c)) : b \in Boxes, c \in Categories}

SeqsUpTo(S, n) == UNION {[1..k -> S] : k \in 0..n}

\* fields.DetectedRegions entries: null, or an object that may lack members
DetectedItems ==
    { None,
      Some(EmptyObject),
      Some(Region(Some(Box(3, 1, 2, 4)), Confidence, Some(catHead))),
      Some(Region(Some(Box(10, 10, 5, 5)), Confidence, Some(catRearLeg))),
      Some(Region(None, Confidence, Some(catTail))) }

NoDetected == [k |-> "undef", items |-> <<>>]

DetectedFields ==
    {NoDetected} \cup
    {[k |-> kind, items |-> it] : kind \in {"arr", "obj"}, it \in SeqsUpTo(DetectedItems, MaxDetected)}

\* a number field as the service writes it ({valueNumber}), as {value}, or bare
NumberFields(a, b) ==
    {ObjField(Undef, Num(a, b), Undef), ObjField(Undef, Undef, Num(a, b)), BareField(Num(a, b))}

StringFields(x) == {ObjField(Str(x), Undef, Undef), BareField(Str(x))}

LegCountFields ==
    {NoField} \cup NumberFields(4, 1) \cup NumberFields(0, 1)
              \cup NumberFields(-1, 1) \cup NumberFields(5, 2)

Fields(desc, vp, o, dc, lc, es, tl, dr) ==
    [ ImageDescription |-> desc, Summary |-> desc, VerticalPlacement |-> vp,
      Orientation |-> o, DetailCount |-> dc, LegCount |-> lc, EarSize |-> es,
      TailLength |-> tl, DetectedRegions |-> dr ]

NoFields == Fields(NoField, NoField, NoField, NoField, NoField, NoField, NoField, NoDetected)

\* contents[0].fields holding scalar fields only
ScalarFields ==
    { Fields(desc, vp, o, dc, lc, es, tl, NoDetected) :
        desc \in {NoField, ObjField(Str(descPig), Undef, Undef)},
        vp \in {NoField} \cup StringFields(sTop),
        o \in {NoField, ObjField(Str(sLeft), Undef, Undef)},
        dc \in {NoField} \cup NumberFields(7, 1),
        lc \in LegCountFields,
        es \in {NoField, ObjField(Str(sLarge), Undef, Undef)},
        tl \in {NoField, ObjField(Undef, Num(1, 2), Undef), ObjField(Undef, Num(0, 1), Undef),
                 BareField(Str(sLong))} }

\* contents[0].fields holding DetectedRegions and LegCount beside objects
RegionFields ==
    { Fields(NoField, NoField, NoField, NoField, lc, NoField, NoField, dr) :
        lc \in {NoField, BareField(Num(4, 1)), BareField(Num(-1, 1))},
        dr \in DetectedFields }

\* contents[0].fields holding DetailCount and LegCount beside one detected object
MixedFields ==
    { Fields(NoField, NoField, NoField, dc, lc, NoField, NoField, NoDetected) :
        dc \in {NoField} \cup NumberFields(0, 1) \cup NumberFields(7, 1),
        lc \in {NoField} \cup NumberFields(4, 1) }

Result(objs, flds) == [objects |-> objs, fields |-> flds]

\* response.result of a Succeeded response
Results ==
    {None}
    \cup {Some(Result(objs, None)) :
            objs \in {None} \cup {Some(l) : l \in SeqsUpTo(Objects, MaxObjects)}}
    \cup {Some(Result(None, Some(f))) : f \in ScalarFields}
    \cup {Some(Result(Some(l), Some(f))) :
            l \in SeqsUpTo({Region(Some(b), Confidence, Some(catHead)) : b \in Boxes}, 1),
            f \in RegionFields}
    \cup {Some(Result(Some(<<Region(Some(Box(0, 0, 2, 2)), Confidence, Some(catLeg))>>), Some(f))) :
            f \in MixedFields}

StatusResponse(kind, status, result, error) ==
    [kind |-> kind, status |-> status, result |-> result, error |-> error]

Succeeded(result) == StatusResponse("ok", "Succeeded", result, None)

----------------------------------------------------------------------------
(* analyzeImage: submitAnalysisRequest, pollForResults, transformToDetection.*)

MAX_POLLING_ATTEMPTS == 60

POLLING_INTERVAL_MS == 1000

idReq == <<"r", "1">>
idApim == <<"a", "1">>
locPlain == <<"h", "/", "j", "1">>
locQuery == <<"h", "/", "j", "2", "?", "v", "=", "1">>
locNoId == <<"h", "/">>
locOnlyQuery == <<"h", "/", "?", "v", "=", "1">>
msgQuota == <<"q", "u", "o", "t", "a">>
urlImage == <<"u">>

Headers(r, a, l) == [requestId |-> r, apimRequestId |-> a, operationLocation |-> l]

\* the headers of a submit response: each absent, empty or set
SubmitHeaders ==
    { Headers(r, a, l) :
        r \in {None, Some(<<>>), Some(idReq)},
        a \in {None, Some(idApim)},
        l \in {None, Some(locPlain), Some(locQuery), Some(locNoId), Some(locOnlyQuery)} }

SubmitResponses ==
    {[kind |-> k, headers |-> Headers(None, None, None)] : k \in {"rejected", "httpError"}}
    \cup {[kind |-> "ok", headers |-> h] : h \in SubmitHeaders}

\* headers.get(name) || ... : null and '' are falsy
HeaderSet(h) == IsSome(h) /\ Get(h) # <<>>

\* the two headers tried in the other order
ExtractRequestIdApimFirst(h) ==
    IF HeaderSet(h.apimRequestId) THEN Get(h.apimRequestId)
    ELSE IF HeaderSet(h.requestId) THEN Get(h.requestId)
    ELSE IF IsSome(h.operationLocation)
         THEN BeforeFirst(AfterLast(Get(h.operationLocation), "/"), "?")
         ELSE <<>>

\* lines 182-184: request-id, else apim-request-id, else the end of Operation-Location
ExtractRequestId(h) ==
    IF HeaderSet(h.requestId) THEN Get(h.requestId)
    ELSE IF HeaderSet(h.apimRequestId) THEN Get(h.apimRequestId)
    ELSE IF IsSome(h.operationLocation)
         THEN BeforeFirst(AfterLast(Get(h.operationLocation), "/"), "?")
         ELSE <<>>

\* the status responses of the model; a Succeeded one carries one of these results
AcqResults ==
    { None,
      Some(Result(None, None)),
      Some(Result(Some(<<>>), Some(NoFields))),
      Some(Result(None, Some(Fields(ObjField(Str(descPig), Undef, Undef),
                                    ObjField(Str(sTop), Undef, Undef), NoField,
                                    ObjField(Undef, Num(7, 1), Undef),
                                    ObjField(Undef, Num(4, 1), Undef), NoField,
                                    NoField, NoDetected)))),
      Some(Result(None, Some(Fields(NoField, NoField, NoField, NoField,
                                    ObjField(Undef, Num(5, 2), Undef), NoField,
                                    NoField, NoDetected)))),
      Some(Result(None, Some(Fields(NoField, NoField, NoField, NoField,
                                    BareField(Num(-1, 1)), NoField,
                                    NoField, NoDetected)))),
      Some(Result(Some(<<Region(Some(Box(0, 0, 2, 2)), Confidence, Some(catHead)),
                         Region(Some(Box(3, 1, 2, 4)), Confidence, Some(catRearLeg))>>),
                  None)) }

RemoteErrors == {None, Some([message |-> None]), Some([message |-> Some(<<>>)]),
                 Some([message |-> Some(msgQuota)])}

StatusResponses ==
    {StatusResponse(k, "", None, None) : k \in {"rejected", "httpError"}}
    \cup {StatusResponse("ok", st, None, None) : st \in {"NotStarted", "Running", "Canceled"}}
    \cup {StatusResponse("ok", "Running", Some(Result(None, None)), None)}
    \cup {StatusResponse("ok", "Failed", None, e) : e \in RemoteErrors}
    \cup {Succeeded(r) : r \in AcqResults}

NoResponse == StatusResponse("none", "", None, None)

Pending == [kind |-> "pending", error |-> "", text |-> "", detail |-> <<>>, detection |-> None]

\* analyzeImage returned detection
Detected(d) == [kind |-> "detection", error |-> "", text |-> "", detail |-> <<>>,
                detection |-> Some(d)]

\* analyzeImage threw new Error(text + detail); error is the model's name for it
Thrown(e, text, detail) == [kind |-> "error", error |-> e, text |-> text, detail |-> detail,
                            detection |-> None]

\* line 130
Configured(c) == c.endpoint /\ c.key

\* the loop condition written with <= : one attempt too many
LoopContinuesOffByOne(a) == a <= MAX_POLLING_ATTEMPTS

\* line 199: the loop condition
LoopContinues(a) == a < MAX_POLLING_ATTEMPTS

\* setTimeout(resolve, 0): the loop spins
SleepMsNone == POLLING_INTERVAL_MS - POLLING_INTERVAL_MS

\* line 229: the length of the setTimeout
SleepMs == POLLING_INTERVAL_MS

\* line 222: result.error?.message || 'Unknown error'
FailureDetail(error) ==
    IF IsSome(error) /\ IsSome(Get(error).message) /\ Get(Get(error).message) # <<>>
    THEN Get(Get(error).message)
    ELSE <<"U","n","k","n","o","w","n"," ","e","r","r","o","r">>

\* no throw after the loop: pollForResults returns undefined and
\* transformToDetection reads .result of it
LoopExhaustedFallsThrough ==
    Thrown("TypeError", "Cannot read properties of undefined (reading 'result')", <<>>)

\* line 232: what follows the loop
LoopExhausted == Thrown("Timeout", "Analysis timed out after maximum polling attempts", <<>>)

\* a Failed status taken for one more reason to wait
StatusVerdictRetriesFailed(status) ==
    CASE status = "Succeeded" -> "return"
      [] OTHER                -> "wait"

\* a Running status taken for completion
StatusVerdictRunningReturns(status) ==
    CASE status \in {"Succeeded", "Running"} -> "return"
      [] status = "Failed"                   -> "throw"
      [] OTHER                               -> "wait"

\* lines 214, 220: what the loop does with a parsed status response
StatusVerdict(status) ==
    CASE status = "Succeeded" -> "return"
      [] status = "Failed"    -> "throw"
      [] OTHER                -> "wait"

\* lines 151-154: the Detection analyzeImage returns, or the error transformToDetection threw
TransformOutcome(r, resp) ==
    LET t == transformToDetection(r, resp)
    IN  IF t.ok THEN Detected(Get(t.detection))
        ELSE IF t.error = "NoResult"
             THEN Thrown("NoResult", "No result in analysis response", <<>>)
             ELSE Thrown("RangeError", "Invalid array length", <<>>)

Init ==
    /\ rev \in {1, 2}
    /\ config \in [endpoint : BOOLEAN, key : BOOLEAN]
    /\ imageUrl \in {<<>>, urlImage}
    /\ pc = "start"
    /\ submitHeaders = None
    /\ requestId = <<>>
    /\ attempt = 0
    /\ submitRequests = 0
    /\ statusRequests = 0
    /\ elapsedMs = 0
    /\ nonTerminal = 0
    /\ response = NoResponse
    /\ outcome = Pending
    /\ pigDetection = None
    /\ traits = None
    /\ RouteIdle

Finish(o) ==
    /\ pc' = "done"
    /\ outcome' = o

\* lines 129-142 and 161-174: the checks of analyzeImage, then the POST
Call ==
    /\ pc = "start"
    /\ IF ~Configured(config)
       THEN /\ Finish(Thrown("Configuration",
                   "Azure Content Understanding is not configured. Check environment variables.",
                   <<>>))
            /\ UNCHANGED submitRequests
       ELSE IF imageUrl = <<>>
       THEN /\ Finish(Thrown("ImageUrl",
                   "imageUrl is required for Azure Content Understanding API", <<>>))
            /\ UNCHANGED submitRequests
       ELSE /\ submitRequests' = submitRequests + 1
            /\ pc' = "awaitSubmit"
            /\ UNCHANGED outcome
    /\ UNCHANGED <<routeVars, pigDetection, traits, rev, config, imageUrl, submitHeaders, requestId, attempt,
                   statusRequests, elapsedMs, nonTerminal, response>>

\* lines 176-190, then 196-205: the submit response, and the first GET
SubmitResponse ==
    /\ pc = "awaitSubmit"
    /\ \E r \in SubmitResponses :
        /\ submitHeaders' = Some(r)
        /\ CASE r.kind = "rejected" ->
                  /\ Finish(Thrown("Network", "fetch failed", <<>>))
                  /\ UNCHANGED <<requestId, statusRequests>>
             [] r.kind = "httpError" ->
                  /\ Finish(Thrown("Submission", "Failed to submit analysis request: ", <<>>))
                  /\ UNCHANGED <<requestId, statusRequests>>
             [] OTHER ->
                  LET id == ExtractRequestId(r.headers)
                  IN  IF id = <<>>
                      THEN /\ Finish(Thrown("Submission",
                                  "Failed to extract request ID from response", <<>>))
                           /\ UNCHANGED <<requestId, statusRequests>>
                      ELSE /\ requestId' = id
                           /\ IF LoopContinues(0)
                              THEN /\ statusRequests' = statusRequests + 1
                                   /\ pc' = "awaitStatus"
                                   /\ UNCHANGED outcome
                              ELSE /\ Finish(LoopExhausted)
                                   /\ UNCHANGED statusRequests
    /\ attempt' = 0
    /\ UNCHANGED <<routeVars, pigDetection, traits, rev, config, imageUrl, submitRequests, elapsedMs, nonTerminal, response>>

\* lines 207-229: the status response; Succeeded returns to analyzeImage (lines 147-154)
StatusReceived ==
    /\ pc = "awaitStatus"
    /\ \E r \in StatusResponses :
        /\ response' = r
        /\ CASE r.kind = "rejected" ->
                  /\ Finish(Thrown("Network", "fetch failed", <<>>))
                  /\ UNCHANGED nonTerminal
             [] r.kind = "httpError" ->
                  /\ Finish(Thrown("StatusRequest", "Failed to get analysis results: ", <<>>))
                  /\ UNCHANGED nonTerminal
             [] OTHER ->
                  CASE StatusVerdict(r.status) = "return" ->
                         /\ Finish(TransformOutcome(rev, r))
                         /\ UNCHANGED nonTerminal
                    [] StatusVerdict(r.status) = "throw" ->
                         /\ Finish(Thrown("RemoteFailure", "Analysis failed: ",
                                          FailureDetail(r.error)))
                         /\ UNCHANGED nonTerminal
                    [] OTHER ->
                         /\ pc' = "waiting"
                         /\ nonTerminal' = nonTerminal + 1
                         /\ UNCHANGED outcome
    /\ UNCHANGED <<routeVars, pigDetection, traits, rev, config, imageUrl, submitHeaders, requestId, attempt,
                   submitRequests, statusRequests, elapsedMs>>

\* lines 229-232 and 199-205: the timer fires, attempt++, and the next GET or the timeout
TimerFired ==
    /\ pc = "waiting"
    /\ elapsedMs' = elapsedMs + SleepMs
    /\ attempt' = attempt + 1
    /\ IF LoopContinues(attempt + 1)
       THEN /\ statusRequests' = statusRequests + 1
            /\ pc' = "awaitStatus"
            /\ UNCHANGED outcome
       ELSE /\ Finish(LoopExhausted)
            /\ UNCHANGED statusRequests
    /\ UNCHANGED <<routeVars, pigDetection, traits, rev, config, imageUrl, submitHeaders, requestId, submitRequests,
                   nonTerminal, response>>

Next == Call \/ SubmitResponse \/ StatusReceived \/ TimerFired

Spec == Init /\ [][Next]_vars

\* every pending fetch settles and every timer fires
LiveSpec == Spec /\ WF_vars(Next)

----------------------------------------------------------------------------
(* transformToDetection alone, over every result of Results.               *)

InitTransform ==
    /\ rev \in {1, 2}
    /\ config = [endpoint |-> TRUE, key |-> TRUE]
    /\ imageUrl = urlImage
    /\ pc = "transform"
    /\ submitHeaders = None
    /\ requestId = <<>>
    /\ attempt = 0
    /\ submitRequests = 0
    /\ statusRequests = 0
    /\ elapsedMs = 0
    /\ nonTerminal = 0
    /\ response \in {Succeeded(r) : r \in Results}
    /\ outcome = Pending
    /\ pigDetection = None
    /\ traits = None
    /\ RouteIdle

\* line 151 (541): const detection = transformToDetection(response)
Transform ==
    /\ pc = "transform"
    /\ Finish(TransformOutcome(rev, response))
    /\ UNCHANGED <<routeVars, pigDetection, traits, rev, config, imageUrl, submitHeaders, requestId, attempt,
                   submitRequests, statusRequests, elapsedMs, nonTerminal, response>>

NextTransform == Transform

SpecTransform == InitTransform /\ [][NextTransform]_vars

----------------------------------------------------------------------------
(* Two analyzeImage calls side by side. What a call keeps between its      *)
(* awaits are the locals of analyzeImage and pollForResults (requestId,    *)
(* the loop counter attempt); the module holds constants only (lines       *)
(* 17-25). Each call is the protocol of above, on its own record; the      *)
(* history fields statusRequests, nonTerminal and response are per call.   *)

Calls == {1, 2}

\* two submit responses that name different jobs, and a failure
ConcurrentSubmitResponses ==
    {[kind |-> "httpError", headers |-> Headers(None, None, None)],
     [kind |-> "ok", headers |-> Headers(Some(idReq), None, None)],
     [kind |-> "ok", headers |-> Headers(None, Some(idApim), None)]}

ConcurrentStatusResponses ==
    {StatusResponse("httpError", "", None, None),
     StatusResponse("ok", "Running", None, None),
     StatusResponse("ok", "Failed", None, Some([message |-> Some(msgQuota)])),
     Succeeded(Some(Result(Some(<<>>), Some(NoFields))))}

CallStart ==
    [pc |-> "start", requestId |-> <<>>, attempt |-> 0, statusRequests |-> 0,
     nonTerminal |-> 0, response |-> NoResponse, outcome |-> Pending]

\* a loop counter kept at module level: every call in flight counts on it
NextAttemptShared(c) == calls[1].attempt + calls[2].attempt + 1

\* line 199: attempt++ on the counter of the call's own loop
NextAttempt(c) == calls[c].attempt + 1

InitConcurrent ==
    /\ rev = 2
    /\ config = [endpoint |-> TRUE, key |-> TRUE]
    /\ imageUrl = urlImage
    /\ pc = "concurrent"
    /\ submitHeaders = None
    /\ requestId = <<>>
    /\ attempt = 0
    /\ submitRequests = 0
    /\ statusRequests = 0
    /\ elapsedMs = 0
    /\ nonTerminal = 0
    /\ response = NoResponse
    /\ outcome = Pending
    /\ pigDetection = None
    /\ traits = None
    /\ summary = None /\ isPig = None /\ saved = <<>> /\ httpResponse = None
    /\ calls = [c \in Calls |-> CallStart]
    /\ GroupIdle /\ LimiterIdle

ConcurrentFrame ==
    UNCHANGED <<pc, pigDetection, traits, summary, isPig, saved, httpResponse, coreVars,
                groupVars, limiterVars>>

\* lines 129-142 and 161-174 of call c
CallC(c) ==
    /\ calls[c].pc = "start"
    /\ calls' = [calls EXCEPT ![c].pc = "awaitSubmit"]
    /\ ConcurrentFrame

\* lines 176-190, then 196-205 of call c
SubmitResponseC(c) ==
    /\ calls[c].pc = "awaitSubmit"
    /\ \E r \in ConcurrentSubmitResponses :
        LET id == ExtractRequestId(r.headers)
        IN  calls' =
              IF r.kind = "httpError"
              THEN [calls EXCEPT ![c].pc = "done",
                                 ![c].outcome = Thrown("Submission",
                                     "Failed to submit analysis request: ", <<>>)]
              ELSE IF LoopContinues(0)
              THEN [calls EXCEPT ![c].pc = "awaitStatus", ![c].requestId = id,
                                 ![c].statusRequests = 1]
              ELSE [calls EXCEPT ![c].pc = "done", ![c].requestId = id,
                                 ![c].outcome = LoopExhausted]
    /\ ConcurrentFrame

\* lines 207-229 of call c: the response to the GET for its job
StatusReceivedC(c) ==
    /\ calls[c].pc = "awaitStatus"
    /\ \E r \in ConcurrentStatusResponses :
        calls' =
          IF r.kind = "httpError"
          THEN [calls EXCEPT ![c].pc = "done", ![c].response = r,
                             ![c].outcome = Thrown("StatusRequest",
                                 "Failed to get analysis results: ", <<>>)]
          ELSE IF StatusVerdict(r.status) = "return"
          THEN [calls EXCEPT ![c].pc = "done", ![c].response = r,
                             ![c].outcome = TransformOutcome(rev, r)]
          ELSE IF StatusVerdict(r.status) = "throw"
          THEN [calls EXCEPT ![c].pc = "done", ![c].response = r,
                             ![c].outcome = Thrown("RemoteFailure", "Analysis failed: ",
                                                   FailureDetail(r.error))]
          ELSE [calls EXCEPT ![c].pc = "waiting", ![c].response = r,
                             ![c].nonTerminal = @ + 1]
    /\ ConcurrentFrame

\* lines 229-232 and 199-205 of call c
TimerFiredC(c) ==
    /\ calls[c].pc = "waiting"
    /\ calls' =
          IF LoopContinues(NextAttempt(c))
          THEN [calls EXCEPT ![c].pc = "awaitStatus", ![c].attempt = NextAttempt(c),
                             ![c].statusRequests = @ + 1]
          ELSE [calls EXCEPT ![c].pc = "done", ![c].attempt = NextAttempt(c),
                             ![c].outcome = LoopExhausted]
    /\ ConcurrentFrame

NextConcurrent ==
    \E c \in Calls : CallC(c) \/ SubmitResponseC(c) \/ StatusReceivedC(c) \/ TimerFiredC(c)

SpecConcurrent == InitConcurrent /\ [][NextConcurrent]_vars

----------------------------------------------------------------------------
(* lib/scoring/pigRules.ts: the rules engine. Numbers are the rationals    *)
(* [n, d] of above; a quotient by zero is d = 0: n > 0 is Infinity, n < 0  *)
(* is -Infinity and n = 0 is NaN. The inputs of the model keep quotients   *)
(* exact (small integers), so that a comparison with a decimal literal     *)
(* gives what the floating-point comparison gives.                         *)

PERSONALITY_STATEMENTS ==
    [ placement |-> [ top |-> "tendency to be positive and optimistic.",
                      middle |-> "tendency to be a realist.",
                      bottom |-> "tendency to be pessimistic and may be prone to behaving negatively." ],
      orientation |-> [ left |-> "believe in tradition and be friendly; may remember dates well.",
                        right |-> "innovative and active; may forget dates and may not have a strong sense of family.",
                        front |-> "direct; may enjoy playing devil's advocate; not prone to fearing or avoiding confrontational discussions." ],
      details |-> [ many |-> "analytical; may be cautious and struggle with trust.",
                    few |-> "emotional; big-picture; great risk taker; may be reckless or impulsive." ],
      legs |-> [ four |-> "secure and stick to ideals; may be described as stubborn.",
                 lessThanFour |-> "major period of change; may struggle with insecurities." ],
      ears |-> [ large |-> "good listener (the bigger, the better)." ],
      tail |-> [ long |-> "indicates intelligence (the longer, the better)." ] ]

PLACEMENT_THRESHOLDS == [TOP |-> Num(33, 100), BOTTOM |-> Num(67, 100)]

DETAIL_THRESHOLD == 5

EAR_SIZE_RATIO == Num(3, 10)

TAIL_LENGTH_RATIO == Num(4, 10)

\* the literal 0.1 of line 267
EAR_CANVAS_RATIO == Num(1, 10)

\* the literal 0.15 of line 336
TAIL_CANVAS_RATIO == Num(15, 100)

sMiddle == <<"M", "i", "d", "d", "l", "e">>
sBottom == <<"B", "o", "t", "t", "o", "m">>
sRight == <<"R", "i", "g", "h", "t">>
sFront == <<"F", "r", "o", "n", "t">>
sFrontDefault == sFront \o <<" ", "(", "d", "e", "f", "a", "u", "l", "t", ")">>
sNormal == <<"N", "o", "r", "m", "a", "l">>
sMany == <<"M", "a", "n", "y">>
sFew == <<"F", "e", "w">>
sOfHead == <<"%", " ", "o", "f", " ", "h", "e", "a", "d">>
sOfBody == <<"%", " ", "o", "f", " ", "b", "o", "d", "y">>
kPlacement == <<"p", "l", "a", "c", "e", "m", "e", "n", "t", "=">>
kOrientation == <<"o", "r", "i", "e", "n", "t", "a", "t", "i", "o", "n", "=">>
kDetails == <<"d", "e", "t", "a", "i", "l", "s", "=">>
kLegs == <<"l", "e", "g", "s", "=">>
kEars == <<"e", "a", "r", "s", "=">>
kTail == <<"t", "a", "i", "l", "=">>

DigitChars == <<"0", "1", "2", "3", "4", "5", "6", "7", "8", "9">>

RECURSIVE Digits(_)
\* the decimal digits of an integer k >= 0
Digits(k) == IF k < 10 THEN <<DigitChars[k + 1]>>
             ELSE Digits(k \div 10) \o <<DigitChars[(k % 10) + 1]>>

\* the decimal digits of h hundredths, 0 < h < 100, without a trailing zero
Hundredths(h) ==
    IF h % 10 = 0 THEN <<DigitChars[(h \div 10) + 1]>>
    ELSE <<DigitChars[(h \div 10) + 1], DigitChars[(h % 10) + 1]>>

\* String(v) of a template literal, for the numbers with at most two decimals
ToStringJS(v) ==
    CASE v.t = "str" -> v.s
      [] v.t = "undef" -> <<"undefined">>
      [] v.t = "obj" -> <<"[object Object]">>
      [] v.t = "num" /\ v.d = 0 ->
            IF v.n > 0 THEN <<"Infinity">> ELSE IF v.n < 0 THEN <<"-Infinity">> ELSE <<"NaN">>
      [] OTHER ->
            LET a == IF v.n < 0 THEN -v.n ELSE v.n
                h == (a * 100) \div v.d
                whole == Digits(h \div 100)
                text == IF h % 100 = 0 THEN whole
                        ELSE whole \o <<".">> \o Hundredths(h % 100)
            IN  IF v.n < 0 THEN <<"-">> \o text ELSE text

\* a / b for finite a and b
Div(a, b) ==
    LET n == a.n * b.d
        d == a.d * b.n
    IN  IF d < 0 THEN Num(-n, -d)
        ELSE IF d = 0 THEN Num(IF n > 0 THEN 1 ELSE IF n < 0 THEN -1 ELSE 0, 0)
        ELSE Num(n, d)

\* a > b, for b finite; NaN compares false
Gt(a, b) == IF a.d = 0 THEN a.n > 0 ELSE a.n * b.d > b.n * a.d

\* a < b, for b finite
Lt(a, b) == IF a.d = 0 THEN a.n < 0 ELSE a.n * b.d < b.n * a.d

\* a === b for numbers
NumEq(a, b) == a.t = "num" /\ b.t = "num" /\ a.d # 0 /\ b.d # 0 /\ a.n * b.d = b.n * a.d

\* Math.round(v * 100), an integer: floor(x + 0.5)
RoundPercent(v) ==
    IF v.d = 0 THEN v ELSE Num((200 * v.n + v.d) \div (2 * v.d), 1)

\* Math.round(v * 100) / 100
RoundHundredths(v) == IF v.d = 0 THEN v ELSE Num(RoundPercent(v).n, 100)

Trait(category, statement, key, value) ==
    Some([category |-> category, statement |-> statement,
          evidence |-> [key |-> key, value |-> value]])

Statements(direct, table, fallback) ==
    IF \E i \in 1..Len(table) : table[i][1] = direct
    THEN table[CHOOSE i \in 1..Len(table) : table[i][1] = direct][2]
    ELSE fallback

\* lines 90-99 with <= and >= : the boundary falls to Top / Bottom
PlacementVerdictInclusive(relativeY) ==
    IF Lt(relativeY, PLACEMENT_THRESHOLDS.TOP) \/ NumEq(relativeY, PLACEMENT_THRESHOLDS.TOP)
    THEN sTop
    ELSE IF Gt(relativeY, PLACEMENT_THRESHOLDS.BOTTOM)
            \/ NumEq(relativeY, PLACEMENT_THRESHOLDS.BOTTOM)
    THEN sBottom
    ELSE sMiddle

\* lines 90-99
PlacementVerdict(relativeY) ==
    IF Lt(relativeY, PLACEMENT_THRESHOLDS.TOP) THEN sTop
    ELSE IF Gt(relativeY, PLACEMENT_THRESHOLDS.BOTTOM) THEN sBottom
    ELSE sMiddle

\* lines 84-85: relativeY = (bbox.y + bbox.height / 2) / canvas.height
RelativeY(d) ==
    LET bbox == d.overall.boundingBox
    IN  Div(Num(2 * bbox.y + bbox.height, 2), Num(d.overall.canvas.height, 1))

\* Rule 1
evaluatePlacement(d) ==
    LET directPlacement == d.verticalPlacement
    IN  IF Truthy(directPlacement)
        THEN Trait("placement",
                   IF directPlacement.t = "str"
                   THEN Statements(directPlacement.s,
                                   << <<sTop, PERSONALITY_STATEMENTS.placement.top>>,
                                      <<sMiddle, PERSONALITY_STATEMENTS.placement.middle>>,
                                      <<sBottom, PERSONALITY_STATEMENTS.placement.bottom>> >>,
                                   PERSONALITY_STATEMENTS.placement.middle)
                   ELSE PERSONALITY_STATEMENTS.placement.middle,
                   kPlacement \o ToStringJS(directPlacement), directPlacement)
        ELSE LET relativeY == RelativeY(d)
                 value == PlacementVerdict(relativeY)
             IN  Trait("placement",
                       IF value = sTop THEN PERSONALITY_STATEMENTS.placement.top
                       ELSE IF value = sBottom THEN PERSONALITY_STATEMENTS.placement.bottom
                       ELSE PERSONALITY_STATEMENTS.placement.middle,
                       kPlacement \o value, RoundHundredths(relativeY))

\* lines 157-159 with >= : an offset of exactly 20% of the body width turns the pig
OrientationFromBoxesInclusive(hb, bb) ==
    LET offset2 == (2 * hb.x + hb.width) - (2 * bb.x + bb.width)
        abs2 == IF offset2 < 0 THEN -offset2 ELSE offset2
    IN  IF 5 * abs2 >= 2 * bb.width
        THEN (IF offset2 < 0 THEN sLeft ELSE sRight)
        ELSE sFront

\* lines 152-160: Math.abs(offset) > bodyWidth * 0.2, on twice the centres
OrientationFromBoxes(hb, bb) ==
    LET offset2 == (2 * hb.x + hb.width) - (2 * bb.x + bb.width)
        abs2 == IF offset2 < 0 THEN -offset2 ELSE offset2
    IN  IF 5 * abs2 > 2 * bb.width
        THEN (IF offset2 < 0 THEN sLeft ELSE sRight)
        ELSE sFront

\* lines 161-169: the spacing test assigns 'Front', the value orientation already has
OrientationFromEars(ear1, ear2) ==
    LET earSpacing == IF ear1.x < ear2.x THEN ear2.x - ear1.x ELSE ear1.x - ear2.x
    IN  IF 2 * earSpacing < 3 * (ear1.width + ear2.width) THEN sFront ELSE sFront

\* Rule 2
evaluateOrientation(d) ==
    LET directOrientation == d.orientation
    IN  IF Truthy(directOrientation)
        THEN Trait("orientation",
                   IF directOrientation.t = "str"
                   THEN Statements(directOrientation.s,
                                   << <<sLeft, PERSONALITY_STATEMENTS.orientation.left>>,
                                      <<sRight, PERSONALITY_STATEMENTS.orientation.right>>,
                                      <<sFront, PERSONALITY_STATEMENTS.orientation.front>> >>,
                                   PERSONALITY_STATEMENTS.orientation.front)
                   ELSE PERSONALITY_STATEMENTS.orientation.front,
                   kOrientation \o ToStringJS(directOrientation), directOrientation)
        ELSE IF ~IsSome(d.head) /\ ~IsSome(d.body)
        THEN Trait("orientation", PERSONALITY_STATEMENTS.orientation.front,
                   kOrientation \o sFront, Str(sFrontDefault))
        ELSE LET orientation ==
                     IF IsSome(d.head) /\ IsSome(d.body)
                        /\ IsSome(Get(d.head).boundingBox) /\ IsSome(Get(d.body).boundingBox)
                     THEN OrientationFromBoxes(Get(Get(d.head).boundingBox),
                                               Get(Get(d.body).boundingBox))
                     ELSE IF IsSome(d.ears) /\ Len(Get(d.ears)) >= 2
                             /\ IsSome(Get(d.ears)[1].boundingBox)
                             /\ IsSome(Get(d.ears)[2].boundingBox)
                     THEN OrientationFromEars(Get(Get(d.ears)[1].boundingBox),
                                              Get(Get(d.ears)[2].boundingBox))
                     ELSE sFront
             IN  Trait("orientation",
                       IF orientation = sLeft THEN PERSONALITY_STATEMENTS.orientation.left
                       ELSE IF orientation = sRight THEN PERSONALITY_STATEMENTS.orientation.right
                       ELSE PERSONALITY_STATEMENTS.orientation.front,
                       kOrientation \o orientation, Str(orientation))

\* line 192 with >= : five details count as many
isDetailedInclusive(detailCount) ==
    Gt(detailCount, Num(DETAIL_THRESHOLD, 1)) \/ NumEq(detailCount, Num(DETAIL_THRESHOLD, 1))

\* line 192
isDetailed(detailCount) == Gt(detailCount, Num(DETAIL_THRESHOLD, 1))

\* Rule 3
evaluateDetailLevel(d) ==
    LET detailCount == d.detailCount
    IN  Trait("details",
              IF isDetailed(detailCount) THEN PERSONALITY_STATEMENTS.details.many
              ELSE PERSONALITY_STATEMENTS.details.few,
              kDetails \o (IF isDetailed(detailCount) THEN sMany ELSE sFew),
              detailCount)

\* line 214 with >= : more than four legs count as four
hasFourLegsOrMore(legCount) == Gt(legCount, Num(4, 1)) \/ NumEq(legCount, Num(4, 1))

\* line 214
hasFourLegs(legCount) == NumEq(legCount, Num(4, 1))

\* line 213: directLegCount ?? detection.legs?.length ?? 0
LegCountOf(d) ==
    Coalesce(d.legCount, IF IsSome(d.legs) THEN Num(Len(Get(d.legs)), 1) ELSE Num(0, 1))

\* a rule that skips a drawing without legs
evaluateLegCountSkipsNone(d) ==
    LET legCount == LegCountOf(d)
    IN  IF NumEq(legCount, Num(0, 1)) THEN None
        ELSE Trait("legs",
                   IF hasFourLegs(legCount) THEN PERSONALITY_STATEMENTS.legs.four
                   ELSE PERSONALITY_STATEMENTS.legs.lessThanFour,
                   kLegs \o ToStringJS(legCount), legCount)

\* Rule 4
evaluateLegCount(d) ==
    LET legCount == LegCountOf(d)
    IN  Trait("legs",
              IF hasFourLegs(legCount) THEN PERSONALITY_STATEMENTS.legs.four
              ELSE PERSONALITY_STATEMENTS.legs.lessThanFour,
              kLegs \o ToStringJS(legCount), legCount)

\* e => e.boundingBox
HasBoundingBox(e) == IsSome(e.boundingBox)

RECURSIVE SumHeights(_)
\* reduce((sum, ear) => sum + ear.boundingBox.height, 0)
SumHeights(regions) ==
    IF regions = <<>> THEN 0
    ELSE Get(Head(regions).boundingBox).height + SumHeights(Tail(regions))

\* lines 263 and 283: the mean height of the ears that have a box
AvgEarHeight(validEars) == Num(SumHeights(validEars), Len(validEars))

\* line 287 with >= : the boundary counts as large
ExceedsEarRatioInclusive(earToHeadRatio) ==
    Gt(earToHeadRatio, EAR_SIZE_RATIO) \/ NumEq(earToHeadRatio, EAR_SIZE_RATIO)

\* line 287
ExceedsEarRatio(earToHeadRatio) == Gt(earToHeadRatio, EAR_SIZE_RATIO)

\* line 267 with the threshold of line 287
ExceedsCanvasEarRatioOfHead(relativeSize) == Gt(relativeSize, EAR_SIZE_RATIO)

\* line 267
ExceedsCanvasEarRatio(relativeSize) == Gt(relativeSize, EAR_CANVAS_RATIO)

\* lines 262 and 282 without the filter: every ear region is measured
ValidEarsUnfiltered(ears) == ears

\* lines 262 and 282: ears.filter(e => e.boundingBox)
ValidEars(ears) == Filter(ears, HasBoundingBox)

\* Rule 5
evaluateEarSize(d) ==
    LET directEarSize == d.earSize
        ears == IF IsSome(d.ears) THEN Get(d.ears) ELSE <<>>
        validEars == ValidEars(ears)
        large == Trait("ears", PERSONALITY_STATEMENTS.ears.large, kEars \o sLarge, Str(sLarge))
    IN  IF directEarSize = Str(sLarge) THEN large
        ELSE IF directEarSize = Str(sNormal) THEN None
        ELSE IF Len(ears) = 0 THEN None
        ELSE IF ~IsSome(d.head) \/ ~IsSome(Get(d.head).boundingBox)
        THEN IF Len(validEars) = 0 THEN None
             ELSE LET canvasHeight == Num(d.overall.canvas.height, 1)
                      relativeSize == Div(AvgEarHeight(validEars), canvasHeight)
                  IN  IF ExceedsCanvasEarRatio(relativeSize) THEN large ELSE None
        ELSE IF Len(validEars) = 0 THEN None
        ELSE LET headHeight == Num(Get(Get(d.head).boundingBox).height, 1)
                 earToHeadRatio == Div(AvgEarHeight(validEars), headHeight)
             IN  IF ExceedsEarRatio(earToHeadRatio)
                 THEN Trait("ears", PERSONALITY_STATEMENTS.ears.large, kEars \o sLarge,
                            Str(ToStringJS(RoundPercent(earToHeadRatio)) \o sOfHead))
                 ELSE None

\* Rule 6 with >= at lines 310, 336 and 352: a ratio on the threshold counts as long
evaluateTailLengthInclusive(d) ==
    LET directTailLength == d.tailLength
        long == Trait("tail", PERSONALITY_STATEMENTS.tail.long, kTail \o sLong, Str(sLong))
        AtLeast(a, b) == Gt(a, b) \/ NumEq(a, b)
    IN  IF IsNumber(directTailLength)
        THEN IF AtLeast(directTailLength, TAIL_LENGTH_RATIO) THEN long ELSE None
        ELSE IF ~IsSome(d.tail) \/ ~IsSome(Get(d.tail).boundingBox) THEN None
        ELSE LET tb == Get(Get(d.tail).boundingBox)
                 tailLength == Num(Max2(tb.width, tb.height), 1)
             IN  IF ~IsSome(d.body) \/ ~IsSome(Get(d.body).boundingBox)
                 THEN IF AtLeast(Div(tailLength, Num(Max2(d.overall.canvas.width,
                                                          d.overall.canvas.height), 1)),
                                 TAIL_CANVAS_RATIO)
                      THEN long ELSE None
                 ELSE IF AtLeast(Div(tailLength, Num(Get(Get(d.body).boundingBox).width, 1)),
                                 TAIL_LENGTH_RATIO)
                      THEN long ELSE None

\* Rule 6
evaluateTailLength(d) ==
    LET directTailLength == d.tailLength
        long == Trait("tail", PERSONALITY_STATEMENTS.tail.long, kTail \o sLong, Str(sLong))
    IN  IF IsNumber(directTailLength)
        THEN IF Gt(directTailLength, TAIL_LENGTH_RATIO)
             THEN Trait("tail", PERSONALITY_STATEMENTS.tail.long, kTail \o sLong,
                        directTailLength)
             ELSE None
        ELSE IF ~IsSome(d.tail) \/ ~IsSome(Get(d.tail).boundingBox) THEN None
        ELSE LET tb == Get(Get(d.tail).boundingBox)
                 tailLength == Num(Max2(tb.width, tb.height), 1)
             IN  IF ~IsSome(d.body) \/ ~IsSome(Get(d.body).boundingBox)
                 THEN LET canvasSize == Num(Max2(d.overall.canvas.width,
                                                 d.overall.canvas.height), 1)
                      IN  IF Gt(Div(tailLength, canvasSize), TAIL_CANVAS_RATIO)
                          THEN long ELSE None
                 ELSE LET bodyWidth == Num(Get(Get(d.body).boundingBox).width, 1)
                          tailToBodyRatio == Div(tailLength, bodyWidth)
                      IN  IF Gt(tailToBodyRatio, TAIL_LENGTH_RATIO)
                          THEN Trait("tail", PERSONALITY_STATEMENTS.tail.long, kTail \o sLong,
                                     Str(ToStringJS(RoundPercent(tailToBodyRatio)) \o sOfBody))
                          ELSE None

\* The one property read of the rules that no test on its own line guards: lines
\* 263 and 283 read ear.boundingBox.height of every ear they are given, a TypeError
\* for an ear without a boundingBox.
RulesThrow(d) ==
    LET ears == IF IsSome(d.ears) THEN Get(d.ears) ELSE <<>>
        measured == ValidEars(ears)
    IN  /\ d.earSize \notin {Str(sLarge), Str(sNormal)}
        /\ Len(ears) # 0
        /\ \E i \in 1..Len(measured) : ~HasBoundingBox(measured[i])

\* if (trait) traits.push(trait)
Push(list, trait) == IF IsSome(trait) THEN Append(list, Get(trait)) ELSE list

\* the ears rule run before the legs rule
analyzePigDrawingEarsFirst(d) ==
    Push(Push(Push(Push(Push(Push(<<>>, evaluatePlacement(d)), evaluateOrientation(d)),
                        evaluateDetailLevel(d)), evaluateEarSize(d)), evaluateLegCount(d)),
         evaluateTailLength(d))

\* lines 25-53
analyzePigDrawing(d) ==
    Push(Push(Push(Push(Push(Push(<<>>, evaluatePlacement(d)), evaluateOrientation(d)),
                        evaluateDetailLevel(d)), evaluateLegCount(d)), evaluateEarSize(d)),
         evaluateTailLength(d))

sUnable == "Unable to analyze drawing. Please ensure the pig is clearly visible."

RECURSIVE Join(_, _)
\* Array.prototype.join
Join(strings, separator) ==
    IF strings = <<>> THEN ""
    ELSE IF Len(strings) = 1 THEN strings[1]
    ELSE strings[1] \o separator \o Join(Tail(strings), separator)

\* lines 370-390 with every statement joined by ' You ': no closing 'Finally, you'
generateSummaryFlat(traitList) ==
    LET statements == [i \in 1..Len(traitList) |-> traitList[i].statement]
    IN  IF Len(traitList) = 0 THEN sUnable
        ELSE IF Len(statements) = 1 THEN "You have a " \o statements[1]
        ELSE IF Len(statements) = 2
        THEN "You " \o statements[1] \o " You also " \o statements[2]
        ELSE "You " \o Join(statements, " You ")

\* lines 370-390
generateSummary(traitList) ==
    LET statements == [i \in 1..Len(traitList) |-> traitList[i].statement]
    IN  IF Len(traitList) = 0 THEN sUnable
        ELSE IF Len(statements) = 1 THEN "You have a " \o statements[1]
        ELSE IF Len(statements) = 2
        THEN "You " \o statements[1] \o " You also " \o statements[2]
        ELSE LET firstPart == Join(SubSeq(statements, 1, Len(statements) - 1), " You ")
                 lastPart == statements[Len(statements)]
             IN  "You " \o firstPart \o " Finally, you " \o lastPart

----------------------------------------------------------------------------
(* The Detections the rules engine is run on: createMockDetection with one *)
(* rule's inputs varied at a time, and what transformToDetection returns.  *)

BoxRegion(b) == Region(Some(b), Confidence, None)

\* createMockDetection(), lines 395-419
MockDetection ==
    [ head |-> Some(BoxRegion(Box(150, 100, 100, 80))),
      body |-> Some(BoxRegion(Box(100, 150, 200, 150))),
      legs |-> Some(<<BoxRegion(Box(120, 280, 30, 60)), BoxRegion(Box(170, 280, 30, 60)),
                      BoxRegion(Box(220, 280, 30, 60)), BoxRegion(Box(270, 280, 30, 60))>>),
      ears |-> Some(<<BoxRegion(Box(150, 90, 25, 35)), BoxRegion(Box(225, 90, 25, 35))>>),
      tail |-> Some(BoxRegion(Box(300, 200, 80, 20))),
      overall |-> [boundingBox |-> Box(100, 90, 280, 250),
                   canvas |-> [width |-> 500, height |-> 500]],
      detailCount |-> Num(8, 1),
      description |-> Undef, descriptionConfidence |-> Undef,
      verticalPlacement |-> Undef, orientation |-> Undef, legCount |-> Undef,
      earSize |-> Undef, tailLength |-> Undef ]

Overall(y, h, H) == [boundingBox |-> Box(0, y, 10, h), canvas |-> [width |-> 100, height |-> H]]

\* centroids below, on and above 0.33 and 0.67 of the canvas, and a canvas without height
Overalls ==
    {Overall(y, 0, 100) : y \in {32, 33, 34, 50, 66, 67, 68}}
    \cup {Overall(0, 66, 100), Overall(100, 135, 500), Overall(1, 1, 200),
          Overall(0, 0, 0), Overall(5, 0, 0), Overall(10, 10, -100),
          Overall(-50, 20, 100), Overall(40, -20, 100), Overall(0, 300, 100)}
    \cup {MockDetection.overall}

sCenter == <<"C", "e", "n", "t", "e", "r">>
sSmall == <<"S", "m", "a", "l", "l">>

VerticalPlacements == {Undef, Str(sTop), Str(sMiddle), Str(sBottom), Str(sCenter)}

Orientations == {Undef, Str(sLeft), Str(sRight), Str(sFront)}

EarSizes == {Undef, Str(sLarge), Str(sNormal), Str(sSmall)}

TailLengths == {Undef, Num(0, 1), Num(2, 5), Num(1, 2), Str(sLong)}

LegCounts == {Undef, Num(0, 1), Num(3, 1), Num(4, 1), Num(5, 1)}

DetailCounts == {Num(0, 1), Num(5, 1), Num(11, 2), Num(6, 1), Num(8, 1)}

\* beside a body of width 100 at x = 100 the head centres 129, 130, 170 and 171 lie
\* around an offset of 20% of the body width
Heads == {None, Some(BoxRegion(Box(150, 100, 100, 100))), Some(BoxRegion(Box(0, 100, 100, 0))),
          Some(BoxRegion(Box(79, 100, 100, 100))), Some(BoxRegion(Box(80, 100, 100, 100))),
          Some(BoxRegion(Box(120, 100, 100, 100))), Some(BoxRegion(Box(121, 100, 100, 100))),
          Some(Region(None, Confidence, None)), MockDetection.head}

\* a body of width 100, bodies of width 0 and -100, a body without a box, the mock body
Bodies == {None, Some(BoxRegion(Box(100, 150, 100, 150))),
           Some(BoxRegion(Box(100, 150, 0, 150))), Some(BoxRegion(Box(100, 150, -100, 150))),
           Some(Region(None, Confidence, None)), MockDetection.body}

Ear(h) == BoxRegion(Box(150, 90, 20, h))

EarLists ==
    {None, Some(<<>>), Some(<<Ear(10)>>), Some(<<Ear(30)>>), Some(<<Ear(31)>>),
     Some(<<Ear(20), Ear(40)>>), Some(<<Ear(50), Region(None, Confidence, None)>>),
     Some(<<Ear(100)>>), Some(<<Ear(150), Ear(151)>>), Some(<<Region(None, Confidence, None)>>),
     MockDetection.ears}

LegLists ==
    {None, Some(<<>>), Some(SubSeq(Get(MockDetection.legs), 1, 3)), MockDetection.legs,
     Some(Get(MockDetection.legs) \o <<BoxRegion(Box(300, 280, 30, 60))>>),
     Some(<<EmptyObject, EmptyObject, EmptyObject, EmptyObject>>)}

Tails == {None, Some(BoxRegion(Box(300, 200, 40, 10))), Some(BoxRegion(Box(300, 200, 75, 20))),
          Some(BoxRegion(Box(300, 200, 0, 0))), Some(BoxRegion(Box(-30, -20, -10, -5))),
          Some(Region(None, Confidence, None)), MockDetection.tail}

PlacementInputs ==
    {[MockDetection EXCEPT !.overall = o, !.verticalPlacement = vp] :
        o \in Overalls, vp \in VerticalPlacements}

OrientationInputs ==
    {[MockDetection EXCEPT !.orientation = o, !.head = h, !.body = b, !.ears = e] :
        o \in Orientations, h \in Heads, b \in Bodies,
        e \in {None, Some(<<Ear(20), Ear(40)>>), Some(<<Ear(20), BoxRegion(Box(400, 90, 20, 40))>>),
               MockDetection.ears}}

DetailInputs ==
    {[MockDetection EXCEPT !.detailCount = dc, !.legCount = lc, !.legs = l] :
        dc \in DetailCounts, lc \in LegCounts, l \in LegLists}

EarInputs ==
    {[MockDetection EXCEPT !.earSize = es, !.ears = e, !.head = h, !.overall = o] :
        es \in EarSizes, e \in EarLists, h \in Heads,
        o \in {MockDetection.overall, Overall(0, 0, 100), Overall(0, 0, 0)}}

TailInputs ==
    {[MockDetection EXCEPT !.tailLength = tl, !.tail = t, !.body = b] :
        tl \in TailLengths, t \in Tails, b \in Bodies}

\* a sparse drawing: nothing detected but the frame
SparseInputs ==
    {[MockDetection EXCEPT !.head = None, !.body = None, !.legs = l, !.ears = l,
                           !.tail = None, !.detailCount = Num(0, 1), !.overall = o] :
        l \in {None, Some(<<>>)}, o \in Overalls}

\* the Detections transformToDetection returns for the payloads of the model
TransformOutputs ==
    {Get(t.detection) : t \in {u \in {transformToDetection(r, Succeeded(x)) :
                                        r \in {1, 2}, x \in Results} : u.ok}}

sLeftLower == <<"l", "e", "f", "t">>

\* contents[0].fields whose VerticalPlacement and Orientation strings are and are
\* not among the values the analyzer is meant to write
UnvalidatedFields ==
    { Fields(ObjField(Str(descPig), Undef, Undef), vp, o, NoField, NoField, NoField, NoField,
             NoDetected) :
        vp \in {NoField, ObjField(Str(sTop), Undef, Undef), ObjField(Str(sCenter), Undef, Undef)},
        o \in {NoField, ObjField(Str(sLeft), Undef, Undef),
                ObjField(Str(sLeftLower), Undef, Undef)} }

\* the Detections transformToDetection returns for them (lines 284-297)
UnvalidatedOutputs ==
    {Get(transformToDetection(r, Succeeded(Some(Result(None, Some(f))))).detection) :
        r \in {1, 2}, f \in UnvalidatedFields}

Detections ==
    PlacementInputs \cup OrientationInputs \cup DetailInputs \cup EarInputs
    \cup TailInputs \cup SparseInputs \cup TransformOutputs \cup UnvalidatedOutputs

(* The rules engine alone: analyzePigDrawing on every Detection of above.  *)

InitRules ==
    /\ rev = 2
    /\ config = [endpoint |-> TRUE, key |-> TRUE]
    /\ imageUrl = urlImage
    /\ pc = "rules"
    /\ submitHeaders = None
    /\ requestId = <<>>
    /\ attempt = 0
    /\ submitRequests = 0
    /\ statusRequests = 0
    /\ elapsedMs = 0
    /\ nonTerminal = 0
    /\ response = NoResponse
    /\ outcome = Pending
    /\ pigDetection \in {Some(d) : d \in Detections}
    /\ traits = None
    /\ RouteIdle

\* route.ts line 147: const traits = analyzePigDrawing(detection)
Analyze ==
    /\ pc = "rules"
    /\ IF RulesThrow(Get(pigDetection))
       THEN traits' = None /\ pc' = "raised"
       ELSE traits' = Some(analyzePigDrawing(Get(pigDetection))) /\ pc' = "analyzed"
    /\ UNCHANGED <<routeVars, pigDetection, rev, config, imageUrl, submitHeaders, requestId, attempt,
                   submitRequests, statusRequests, elapsedMs, nonTerminal, response, outcome>>

\* route.ts line 148: const summary = generateSummary(traits)
Compose ==
    /\ pc = "analyzed"
    /\ summary' = Some(generateSummary(Get(traits)))
    /\ pc' = "composed"
    /\ UNCHANGED <<pigDetection, traits, isPig, saved, httpResponse, sideVars, coreVars>>

NextRules == Analyze \/ Compose

SpecRules == InitRules /\ [][NextRules]_vars

(* generateSummary alone, on the trait lists of every length from 0 to 6:  *)
(* the lists analyzePigDrawing returns and their prefixes.                 *)

TraitLists ==
    LET lists == {analyzePigDrawing(d) :
                    d \in PlacementInputs \cup OrientationInputs \cup DetailInputs
                          \cup EarInputs \cup TailInputs \cup SparseInputs}
    IN  UNION {{SubSeq(t, 1, k) : k \in 0..Len(t)} : t \in lists}

InitSummary ==
    /\ rev = 2
    /\ config = [endpoint |-> TRUE, key |-> TRUE]
    /\ imageUrl = urlImage
    /\ pc = "analyzed"
    /\ submitHeaders = None
    /\ requestId = <<>>
    /\ attempt = 0
    /\ submitRequests = 0
    /\ statusRequests = 0
    /\ elapsedMs = 0
    /\ nonTerminal = 0
    /\ response = NoResponse
    /\ outcome = Pending
    /\ pigDetection = None
    /\ traits \in {Some(t) : t \in TraitLists}
    /\ RouteIdle

NextSummary == Compose

SpecSummary == InitSummary /\ [][NextSummary]_vars

----------------------------------------------------------------------------
(* isPigDescription of lib/azure/content-understanding.ts, which the route *)
(* imports and the tests exercise; the build at hand does not hold its     *)
(* body, so it is written from the specification of the content validator: *)
(* a case-insensitive search for a keyword of two fixed lists.             *)

\* the characters of a string
Chars(str) == [i \in 1..Len(str) |-> SubSeq(str, i, i)]

\* primary subject nouns
PIG_KEYWORDS == {Chars("pig"), Chars("piglet"), Chars("porcine"), Chars("swine"), Chars("hog")}

\* secondary anatomy keywords
ANATOMY_KEYWORDS == {Chars("snout"), Chars("curly tail"), Chars("trotters")}

\* the search without toLowerCase
isPigDescriptionCaseSensitive(description) ==
    /\ IsString(description) /\ description.s # <<>>
    /\ \/ \E keyword \in PIG_KEYWORDS : includes(description.s, keyword)
       \/ \E keyword \in ANATOMY_KEYWORDS : includes(description.s, keyword)

isPigDescription(description) ==
    /\ IsString(description) /\ description.s # <<>>
    /\ LET lower == toLowerCase(description.s)
       IN  \/ \E keyword \in PIG_KEYWORDS : includes(lower, keyword)
           \/ \E keyword \in ANATOMY_KEYWORDS : includes(lower, keyword)

\* the descriptions of the 'Pig Validation' tests and a few more
Sentences ==
    {"The drawing is a simple, cartoon-style depiction of a pig.",
     "A drawing of a piglet with four legs", "This is a porcine animal",
     "A swine with a curly tail", "Drawing of a hog",
     "An animal with a large snout and four legs", "Drawing with a curly tail",
     "Animal with trotters", "A drawing of a dog with four legs",
     "A photograph of a cat sitting on a couch", "A horse standing in a field",
     "A drawing of a bird", "A drawing of a house", "A photograph of a tree",
     "Abstract art with geometric shapes", "A PIG drawing", "DRAWING OF A HOG",
     "Swine with SNOUT", "A Pigeon on a roof", "curly hair and a long tail", "pi g", "Hog",
     "sNoUt", "An animal with a curly  tail", "tROTTERS everywhere", "A farm animal"}

\* String.prototype.toUpperCase
toUpperCase(s) ==
    [i \in 1..Len(s) |->
        IF \E j \in DOMAIN LowerChars : LowerChars[j] = s[i]
        THEN UpperChars[CHOOSE j \in DOMAIN LowerChars : LowerChars[j] = s[i]]
        ELSE s[i]]

\* every sentence as written, in upper case and in lower case; '' and undefined
Descriptions ==
    {Undef, Str(<<>>)}
    \cup {Str(Chars(t)) : t \in Sentences}
    \cup {Str(toUpperCase(Chars(t))) : t \in Sentences}
    \cup {Str(toLowerCase(Chars(t))) : t \in Sentences}

InitValidate ==
    /\ rev = 2
    /\ config = [endpoint |-> TRUE, key |-> TRUE]
    /\ imageUrl = urlImage
    /\ pc = "validate"
    /\ submitHeaders = None
    /\ requestId = <<>>
    /\ attempt = 0
    /\ submitRequests = 0
    /\ statusRequests = 0
    /\ elapsedMs = 0
    /\ nonTerminal = 0
    /\ response = NoResponse
    /\ outcome = Pending
    /\ pigDetection \in {Some([MockDetection EXCEPT !.description = t]) : t \in Descriptions}
    /\ traits = None
    /\ RouteIdle

\* isPigDescription(detection.description)
CheckDescription ==
    /\ pc = "validate"
    /\ isPig' = Some(isPigDescription(Get(pigDetection).description))
    /\ pc' = "validated"
    /\ UNCHANGED <<pigDetection, traits, summary, saved, httpResponse, sideVars, coreVars>>

NextValidate == CheckDescription

SpecValidate == InitValidate /\ [][NextValidate]_vars

----------------------------------------------------------------------------
(* app/api/analyze/route.ts: POST from the analyzeImage call on (lines     *)
(* 118-190). The handler is suspended at its awaits; the steps between     *)
(* them are taken one statement group at a time, in program order.         *)

\* what analyzeImage can settle with: an error of the gateway, or a Detection
RouteOutcomes ==
    {Thrown("Configuration",
            "Azure Content Understanding is not configured. Check environment variables.", <<>>),
     Thrown("Submission", "Failed to submit analysis request: ", <<>>),
     Thrown("RemoteFailure", "Analysis failed: ", msgQuota),
     LoopExhausted,
     Thrown("NoResult", "No result in analysis response", <<>>)}
    \cup {Detected([MockDetection EXCEPT !.description = t]) : t \in Descriptions}
    \cup {Detected([MockDetection EXCEPT !.description = Str(Chars("A pig")),
                                         !.ears = Some(<<Ear(50)>>), !.tail = None,
                                         !.legs = l, !.overall = Overall(0, 0, 0)]) :
             l \in {None, MockDetection.legs}}

\* NextResponse.json(..., { status })
JsonResponse(status, error) == [status |-> status, error |-> error]

\* lines 125-144 without the isPigDescription gate
ValidationVerdictNoGate(description) ==
    IF ~Truthy(description) THEN "noDescription" ELSE "pig"

\* lines 125-144: the two gates on detection.description
ValidationVerdict(description) ==
    IF ~Truthy(description) THEN "noDescription"
    ELSE IF ~isPigDescription(description) THEN "notPig"
    ELSE "pig"

InitRoute ==
    /\ rev = 2
    /\ config = [endpoint |-> TRUE, key |-> TRUE]
    /\ imageUrl = urlImage
    /\ pc = "route"
    /\ submitHeaders = None
    /\ requestId = <<>>
    /\ attempt = 0
    /\ submitRequests = 0
    /\ statusRequests = 0
    /\ elapsedMs = 0
    /\ nonTerminal = 0
    /\ response = NoResponse
    /\ outcome = Pending
    /\ pigDetection = None
    /\ traits = None
    /\ RouteIdle

\* lines 119-121 and 177-189: await analyzeImage settles; a throw lands in the catch
RouteAcquire ==
    /\ pc = "route"
    /\ \E o \in RouteOutcomes :
        /\ outcome' = o
        /\ IF o.kind = "error"
           THEN /\ httpResponse' = Some(JsonResponse(500, "Failed to analyze image"))
                /\ pc' = "responded"
                /\ UNCHANGED pigDetection
           ELSE /\ pigDetection' = o.detection
                /\ pc' = "acquired"
                /\ UNCHANGED httpResponse
    /\ UNCHANGED <<traits, summary, isPig, saved, sideVars, protocolVars>>

\* lines 124-144
RouteValidate ==
    /\ pc = "acquired"
    /\ LET verdict == ValidationVerdict(Get(pigDetection).description)
       IN  CASE verdict = "noDescription" ->
                  /\ httpResponse' = Some(JsonResponse(400, "Unable to analyze image"))
                  /\ pc' = "responded"
                  /\ UNCHANGED isPig
             [] verdict = "notPig" ->
                  /\ httpResponse' = Some(JsonResponse(400, "Not a pig drawing"))
                  /\ pc' = "responded"
                  /\ isPig' = Some(FALSE)
             [] OTHER ->
                  /\ isPig' = Some(TRUE)
                  /\ pc' = "rules"
                  /\ UNCHANGED httpResponse
    /\ UNCHANGED <<pigDetection, traits, summary, saved, sideVars, coreVars>>

\* lines 150-167 and 177-189: the result object and await saveResult(result), which
\* persists it or rejects
RouteSave ==
    /\ pc = "composed"
    /\ \/ /\ saved' = Append(saved, [traits |-> Get(traits), summary |-> Get(summary),
                                      description |-> Get(pigDetection).description])
          /\ pc' = "saved"
          /\ UNCHANGED httpResponse
       \/ /\ httpResponse' = Some(JsonResponse(500, "Failed to analyze image"))
          /\ pc' = "responded"
          /\ UNCHANGED saved
    /\ UNCHANGED <<pigDetection, traits, summary, isPig, sideVars, coreVars>>

\* lines 169-176: the 200 response
RouteRespond ==
    /\ pc = "saved"
    /\ httpResponse' = Some(JsonResponse(200, ""))
    /\ pc' = "responded"
    /\ UNCHANGED <<pigDetection, traits, summary, isPig, saved, sideVars, coreVars>>

\* analyzePigDrawing and generateSummary raise for no Detection (RulesThrow is
\* FALSE throughout), so the catch is entered from the two awaits only
NextRoute ==
    RouteAcquire \/ RouteValidate \/ Analyze \/ Compose \/ RouteSave \/ RouteRespond

SpecRoute == InitRoute /\ [][NextRoute]_vars

----------------------------------------------------------------------------
(* The group page (app/group/page.tsx, kept as unnamed/part_001) and the   *)
(* group results page (app/group/results/page.tsx). Of a participant the   *)
(* id and the leg count are kept, of the tallies the legs tally.           *)

MaxParticipants == 2

\* str.startsWith(prefix)
StartsWith(str, prefix) ==
    Len(str) >= Len(prefix) /\ SubSeq(str, 1, Len(prefix)) = prefix

\* str.split('=')[1]: what stands between the first and the second '='
SplitSecond(str) ==
    LET eqs == {i \in 1..Len(str) : str[i] = "="}
    IN  IF eqs = {} THEN Undef
        ELSE LET first == MinOf(eqs)
                 rest == {i \in eqs : i > first}
                 last == IF rest = {} THEN Len(str) ELSE MinOf(rest) - 1
             IN  Str(SubSeq(str, first + 1, last))

RECURSIVE DigitsValue(_)
\* the integer a sequence of decimal digits writes
DigitsValue(ds) ==
    IF ds = <<>> THEN 0
    ELSE 10 * DigitsValue(SubSeq(ds, 1, Len(ds) - 1))
         + ((CHOOSE i \in 1..10 : DigitChars[i] = ds[Len(ds)]) - 1)

\* parseInt(v): an optional sign and the longest run of decimal digits after it,
\* NaN when there is none (no text of the model starts with white space or 0x)
parseInt(v) ==
    LET str == ToStringJS(v)
        signed == str # <<>> /\ str[1] \in {"-", "+"}
        body == IF signed THEN Tail(str) ELSE str
        IsDigit(c) == \E i \in 1..10 : DigitChars[i] = c
        run == CHOOSE k \in 0..Len(body) :
                  /\ \A i \in 1..k : IsDigit(body[i])
                  /\ k < Len(body) => ~IsDigit(body[k + 1])
        value == DigitsValue(SubSeq(body, 1, run))
    IN  IF run = 0 THEN Num(0, 0)
        ELSE Num(IF signed /\ str[1] = "-" THEN -value ELSE value, 1)

\* part_001 lines 373-376
extractLegs(evidence) ==
    LET found == {i \in 1..Len(evidence) : StartsWith(evidence[i].key, Chars("legs="))}
    IN  IF found = {} THEN Num(4, 1)
        ELSE parseInt(SplitSecond(evidence[MinOf(found)].key))

\* route.ts line 173: traits.map(t => t.evidence)
EvidenceOf(traitList) == [i \in 1..Len(traitList) |-> traitList[i].evidence]

\* JSON.stringify / JSON.parse of a number (part_001 line 157, results page line
\* 17): NaN and the infinities come back as null, which `<` reads as 0
JsonNumber(v) == IF v.d = 0 THEN Num(0, 1) ELSE v

\* results page lines 48-50
TalliedLessThanFour(legs) == Lt(legs, Num(4, 1))

\* results page lines 23-52, the legs tally
calculateTallies(data) ==
    LET less == {i \in 1..Len(data) : TalliedLessThanFour(JsonNumber(data[i].legs))}
    IN  [legs |-> [lessThanFour |-> Cardinality(less),
                   four |-> Len(data) - Cardinality(less)]]

\* the Detections of the drawings the group hands in: leg counts the analyzer
\* reported or not, beside four or five leg regions or none
GroupDetections ==
    {[MockDetection EXCEPT !.description = Str(Chars("A pig")), !.legCount = lc, !.legs = l] :
        lc \in {Undef, Num(3, 1), Num(4, 1), Num(5, 1), Num(-1, 1), Num(5, 2)},
        l \in {None, MockDetection.legs,
                Some(Get(MockDetection.legs) \o <<BoxRegion(Box(300, 280, 30, 60))>>)}}

InitGroup ==
    /\ rev = 2
    /\ config = [endpoint |-> TRUE, key |-> TRUE]
    /\ imageUrl = urlImage
    /\ pc = "group"
    /\ submitHeaders = None
    /\ requestId = <<>>
    /\ attempt = 0
    /\ submitRequests = 0
    /\ statusRequests = 0
    /\ elapsedMs = 0
    /\ nonTerminal = 0
    /\ response = NoResponse
    /\ outcome = Pending
    /\ pigDetection = None
    /\ traits = None
    /\ RouteIdle

\* part_001 lines 88-113: handleAddParticipant posts the drawing; a new request of
\* the route starts, and the analyzer accepts the drawing as a pig
PostDrawing ==
    /\ pc = "group"
    /\ Len(saved) < MaxParticipants
    /\ \E d \in GroupDetections : pigDetection' = Some(d)
    /\ traits' = None
    /\ summary' = None
    /\ isPig' = Some(TRUE)
    /\ httpResponse' = None
    /\ pc' = "rules"
    /\ UNCHANGED <<saved, sideVars, coreVars>>

\* part_001 lines 114-146: the response has come; a 200 makes a participant of its
\* evidence, anything else an error message
AddParticipant ==
    /\ pc = "responded"
    /\ IF Get(httpResponse).status = 200
       THEN participants' =
                Append(participants,
                       [id |-> Len(saved),
                        legs |-> extractLegs(EvidenceOf(saved[Len(saved)].traits))])
       ELSE UNCHANGED participants
    /\ pc' = "group"
    /\ UNCHANGED <<pigDetection, traits, summary, isPig, saved, httpResponse, calls, tallies,
                   limiterVars, coreVars>>

\* part_001 lines 161-163: handleRemoveParticipant
RemoveParticipant ==
    /\ pc = "group"
    /\ \E i \in 1..Len(participants) :
          participants' = SubSeq(participants, 1, i - 1)
                          \o SubSeq(participants, i + 1, Len(participants))
    /\ UNCHANGED <<pc, pigDetection, traits, summary, isPig, saved, httpResponse, calls, tallies,
                   limiterVars, coreVars>>

\* part_001 lines 153-159 and results page lines 13-21: handleViewResults stores the
\* participants, the results page loads them and calculates the tallies
ViewResults ==
    /\ pc = "group"
    /\ participants # <<>>
    /\ tallies' = Some(calculateTallies(participants))
    /\ pc' = "results"
    /\ UNCHANGED <<pigDetection, traits, summary, isPig, saved, httpResponse, calls, participants,
                   limiterVars, coreVars>>

NextGroup ==
    PostDrawing \/ Analyze \/ Compose \/ RouteSave \/ RouteRespond \/ AddParticipant
    \/ RemoveParticipant \/ ViewResults

SpecGroup == InitGroup /\ [][NextGroup]_vars

----------------------------------------------------------------------------
(* app/api/analyze/route.ts lines 22-46: the token bucket per IP. The      *)
(* block runs before the first await of POST, so the requests pass it one  *)
(* after the other, in any order.                                          *)

RATE_LIMIT_CAPACITY == 10

RATE_LIMIT_WINDOW_MS == 60 * 1000

\* the readings of Date.now() in the model: the start, and the instants at, just
\* before and just after which a window that began at 0 or at 1 has passed
Times ==
    {0, 1, RATE_LIMIT_WINDOW_MS, RATE_LIMIT_WINDOW_MS + 1, RATE_LIMIT_WINDOW_MS + 2,
     2 * RATE_LIMIT_WINDOW_MS + 2}

\* the two headers of a request: x-forwarded-for as the list of addresses it
\* holds, x-real-ip as one address; None for a header that is missing or empty
Requests ==
    { [forwardedFor |-> Some(<<"a", "b">>), realIp |-> Some("b")],
      [forwardedFor |-> None, realIp |-> Some("a")],
      [forwardedFor |-> None, realIp |-> None] }

\* line 31: (x-forwarded-for || x-real-ip || 'unknown').split(',')[0].trim()
ClientIp(request) ==
    IF IsSome(request.forwardedFor) THEN Get(request.forwardedFor)[1]
    ELSE IF IsSome(request.realIp) THEN Get(request.realIp)
    ELSE "unknown"

\* rateLimitMap.set(ip, bucket), and the same for the history
Put(map, ip, value) ==
    [i \in DOMAIN map \cup {ip} |-> IF i = ip THEN value ELSE map[i]]

\* line 42 with < : a bucket at zero still lets a request through
ExhaustedBelowZero(bucket) == bucket.tokens < 0

\* line 42
Exhausted(bucket) == bucket.tokens <= 0

\* line 38
WindowPassed(bucket, time) == time - bucket.lastRefill > RATE_LIMIT_WINDOW_MS

InitLimiter ==
    /\ rev = 2
    /\ config = [endpoint |-> TRUE, key |-> TRUE]
    /\ imageUrl = urlImage
    /\ pc = "limiter"
    /\ submitHeaders = None
    /\ requestId = <<>>
    /\ attempt = 0
    /\ submitRequests = 0
    /\ statusRequests = 0
    /\ elapsedMs = 0
    /\ nonTerminal = 0
    /\ response = NoResponse
    /\ outcome = Pending
    /\ pigDetection = None
    /\ traits = None
    /\ RouteIdle

LimiterFrame ==
    UNCHANGED <<pc, pigDetection, traits, summary, isPig, saved, calls, groupVars, coreVars>>

\* lines 31-46: a request reaches the limiter
RateLimit(request) ==
    LET ip == ClientIp(request)
        created == ip \notin DOMAIN rateLimitMap
        fresh == [tokens |-> RATE_LIMIT_CAPACITY, lastRefill |-> now]
        got == IF created THEN fresh ELSE rateLimitMap[ip]
        refilled == WindowPassed(got, now)
        bucket == IF refilled THEN fresh ELSE got
        filled == created \/ refilled
        before == IF filled THEN 0 ELSE admitted[ip]
    IN  /\ pc = "limiter"
        /\ IF Exhausted(bucket)
           THEN /\ rateLimitMap' = Put(rateLimitMap, ip, bucket)
                /\ httpResponse' = Some(JsonResponse(429, "Rate limit exceeded"))
                /\ admitted' = Put(admitted, ip, before)
                /\ lastRequest' = Some([ip |-> ip, status |-> 429,
                                        available |-> bucket.tokens])
           ELSE /\ rateLimitMap' = Put(rateLimitMap, ip, [bucket EXCEPT !.tokens = @ - 1])
                /\ httpResponse' = None
                /\ admitted' = Put(admitted, ip, before + 1)
                /\ lastRequest' = Some([ip |-> ip, status |-> 0,
                                        available |-> bucket.tokens])
        /\ UNCHANGED now
        /\ LimiterFrame

\* time passes
Tick ==
    /\ pc = "limiter"
    /\ \E time \in Times :
          /\ time > now
          /\ now' = time
    /\ UNCHANGED <<rateLimitMap, admitted, lastRequest, httpResponse>>
    /\ LimiterFrame

NextLimiter == (\E request \in Requests : RateLimit(request)) \/ Tick

SpecLimiter == InitLimiter /\ [][NextLimiter]_vars

----------------------------------------------------------------------------
(* The claims.                                                             *)

sUnknownError == <<"U","n","k","n","o","w","n"," ","e","r","r","o","r">>
idJ1 == <<"j", "1">>
idJ2 == <<"j", "2">>

Done == pc = "done"

TimedOut == outcome.kind = "error" /\ outcome.error = "Timeout"

GotStatus(st) == response.kind = "ok" /\ response.status = st

\* the last status response carried a status that is neither Succeeded nor Failed
GotNonTerminal == response.kind = "ok" /\ response.status \notin {"Succeeded", "Failed"}

\* C1: pollForResults issues at most 60 status requests, and the timeout error is
\* raised exactly when 60 status responses in a row were non-terminal.
C1_PollBudget ==
    /\ statusRequests <= MAX_POLLING_ATTEMPTS
    /\ nonTerminal <= statusRequests
    /\ TimedOut => nonTerminal = MAX_POLLING_ATTEMPTS /\ statusRequests = MAX_POLLING_ATTEMPTS
    /\ (Done /\ nonTerminal = MAX_POLLING_ATTEMPTS) => TimedOut

C1_Witness == Done /\ TimedOut /\ statusRequests = MAX_POLLING_ATTEMPTS

\* C2: the first Failed status ends the acquisition at once with the remote-failure
\* error, which carries the remote message ('Unknown error' without one); no status
\* request and no wait follows it.
C2_FailedIsFatal ==
    GotStatus("Failed") =>
        /\ Done
        /\ outcome.kind = "error" /\ outcome.error = "RemoteFailure"
        /\ outcome.text = "Analysis failed: "
        /\ LET e == response.error
               hasMessage == e # None /\ e[1].message # None /\ e[1].message[1] # <<>>
           IN  outcome.detail = IF hasMessage THEN e[1].message[1] ELSE sUnknownError
        /\ statusRequests = nonTerminal + 1
        /\ elapsedMs = nonTerminal * POLLING_INTERVAL_MS

C2_Witness ==
    /\ GotStatus("Failed") /\ response.error = Some([message |-> Some(msgQuota)])
    /\ outcome.detail = msgQuota
    /\ nonTerminal = 2

\* C3: analyzeImage returns a Detection only after a Succeeded status response; the
\* loop ends on the first one (no status request follows it) and the Detection is the
\* transform of that response.
C3_DetectionOnlyOnSucceeded ==
    /\ outcome.kind = "detection" =>
          /\ GotStatus("Succeeded")
          /\ response.result # None
          /\ outcome = TransformOutcome(rev, response)
    /\ GotStatus("Succeeded") =>
          /\ Done
          /\ statusRequests = nonTerminal + 1

C3_Witness == outcome.kind = "detection" /\ GotStatus("Succeeded") /\ nonTerminal = 2

\* C4: the poll loop never spins: one wait of the polling interval lies between two
\* consecutive status requests, and a non-terminal response is followed by that wait
\* before the next request or the timeout.
C4_NoBusyLoop ==
    /\ elapsedMs = (IF pc = "waiting" THEN nonTerminal - 1 ELSE nonTerminal)
                      * POLLING_INTERVAL_MS
    /\ pc = "awaitStatus" =>
          /\ statusRequests = nonTerminal + 1
          /\ elapsedMs = (statusRequests - 1) * POLLING_INTERVAL_MS
    /\ (GotNonTerminal /\ nonTerminal = statusRequests) => (pc = "waiting" \/ TimedOut)
    /\ pc = "waiting" => GotNonTerminal /\ nonTerminal = statusRequests

C4_Witness ==
    /\ pc = "awaitStatus" /\ statusRequests = 3
    /\ elapsedMs = 2 * POLLING_INTERVAL_MS
    /\ GotStatus("Canceled")

\* the exits of an acquisition that has a job id
C5_Exits == {"RemoteFailure", "Timeout", "StatusRequest", "Network", "NoResult", "RangeError"}

C5_ExitIsKnown ==
    (Done /\ requestId # <<>>) =>
        \/ outcome.kind = "detection" /\ outcome.detection # None
        \/ outcome.kind = "error" /\ outcome.error \in C5_Exits

\* C5 (as amended): once submission has returned a job id the acquisition terminates,
\* in exactly one of: a Detection, the remote-failure error, the timeout error, the
\* error of a status request that was not ok or did not settle, or an error thrown
\* by transformToDetection.
C5_Terminates ==
    /\ []C5_ExitIsKnown
    /\ (requestId # <<>>) ~> Done

C5_Witness == Done /\ requestId # <<>> /\ outcome.error = "StatusRequest" /\ nonTerminal = 1

\* C5 (as written): with a job id, the acquisition ends in a Detection, the
\* remote-failure error or the timeout error.
C5_ThreeExits ==
    (Done /\ requestId # <<>>) =>
        \/ outcome.kind = "detection"
        \/ outcome.kind = "error" /\ outcome.error \in {"RemoteFailure", "Timeout"}

\* the job id the headers hold: request-id, else apim-request-id, else the last path
\* segment of Operation-Location
C6_ExpectedId(h) ==
    IF h.requestId = Some(idReq) THEN idReq
    ELSE IF h.apimRequestId = Some(idApim) THEN idApim
    ELSE IF h.operationLocation = Some(locPlain) THEN idJ1
    ELSE IF h.operationLocation = Some(locQuery) THEN idJ2
    ELSE <<>>

\* C6: a status request is issued only with endpoint and key present and after exactly
\* one submit request that succeeded with an extractable job id; without configuration
\* no request is made; a rejected submit or a response without an id ends the
\* acquisition with the submission error, no status request and no second submit.
C6_SubmitGatesPolling ==
    /\ submitRequests <= 1
    /\ statusRequests > 0 =>
          /\ config.endpoint /\ config.key
          /\ submitRequests = 1
          /\ submitHeaders # None /\ submitHeaders[1].kind = "ok"
          /\ requestId # <<>>
          /\ requestId = C6_ExpectedId(submitHeaders[1].headers)
    /\ ~(config.endpoint /\ config.key) => submitRequests = 0 /\ statusRequests = 0
    /\ (submitHeaders # None /\
          (submitHeaders[1].kind = "httpError"
             \/ (submitHeaders[1].kind = "ok" /\ C6_ExpectedId(submitHeaders[1].headers) = <<>>))) =>
          /\ Done
          /\ outcome.kind = "error" /\ outcome.error = "Submission"
          /\ statusRequests = 0 /\ submitRequests = 1

C6_Witness ==
    /\ statusRequests > 0
    /\ submitHeaders = Some([kind |-> "ok",
                             headers |-> Headers(Some(<<>>), None, Some(locQuery))])
    /\ requestId = idJ2

\* a result that holds neither a region nor a field
C7_Bare(result) ==
    /\ result.objects \in {None, Some(<<>>)}
    /\ result.fields \in {None, Some(NoFields)}

\* the Detection of the defaults: the 1000 x 1000 canvas, nothing detected
C7_Defaults(d) ==
    /\ d.overall = [boundingBox |-> Box(0, 0, DEFAULT_CANVAS, DEFAULT_CANVAS),
                    canvas |-> [width |-> DEFAULT_CANVAS, height |-> DEFAULT_CANVAS]]
    /\ d.detailCount = Num(0, 1)
    /\ d.head = None /\ d.body = None /\ d.tail = None
    /\ d.legs \in {None, Some(<<>>)} /\ d.ears \in {None, Some(<<>>)}
    /\ d.description = Undef /\ d.verticalPlacement = Undef /\ d.orientation = Undef
    /\ d.legCount = Undef /\ d.earSize = Undef /\ d.tailLength = Undef

\* C7 (as amended): a Succeeded response without a result object makes the acquisition
\* fail with 'No result in analysis response'; a result object that holds neither a
\* region list nor a scalar field gives the Detection of the defaults.
C7_MissingResultThrows ==
    (Done /\ GotStatus("Succeeded")) =>
        /\ response.result = None =>
              /\ outcome.kind = "error" /\ outcome.error = "NoResult"
              /\ outcome.text = "No result in analysis response"
        /\ (response.result # None /\ C7_Bare(response.result[1])) =>
              /\ outcome.kind = "detection"
              /\ C7_Defaults(outcome.detection[1])

C7_Witness ==
    /\ Done /\ GotStatus("Succeeded")
    /\ response.result = Some(Result(None, None))
    /\ outcome.kind = "detection"

\* C7 (as written): Succeeded with a payload that holds neither a region list nor a
\* scalar field fails instead of returning a Detection.
C7_MalformedResultFails ==
    (Done /\ GotStatus("Succeeded")
          /\ (response.result = None \/ C7_Bare(response.result[1]))) =>
        outcome.kind = "error"

\* C8: for every Succeeded response that carries a result, transformToDetection
\* returns a Detection and does not raise, whatever the payload holds (any numeric
\* LegCount included).
C8_TransformNeverRaises ==
    (Done /\ GotStatus("Succeeded") /\ response.result # None) =>
        outcome.kind = "detection"

\* the slots of a Detection that hold the region x
C9_Slots(d, x) ==
    {"head" : u \in {1} \cap (IF d.head = Some(x) THEN {1} ELSE {})}
    \cup {"body" : u \in {1} \cap (IF d.body = Some(x) THEN {1} ELSE {})}
    \cup {"tail" : u \in {1} \cap (IF d.tail = Some(x) THEN {1} ELSE {})}
    \cup {"legs" : i \in {j \in 1..Len(IF d.legs = None THEN <<>> ELSE d.legs[1]) :
                           d.legs[1][j] = x}}
    \cup {"ears" : i \in {j \in 1..Len(IF d.ears = None THEN <<>> ELSE d.ears[1]) :
                           d.ears[1][j] = x}}

\* the labelled regions of a result: result.objects and the DetectedRegions objects
C9_Regions(result) ==
    (IF result.objects = None THEN {} ELSE SeqRange(result.objects[1]))
    \cup (IF result.fields = None THEN {}
          ELSE {it[1] : it \in {i \in SeqRange(result.fields[1].DetectedRegions.items) :
                                  i # None}})

\* C9: the labelled regions are partitioned: labels match whatever their letter case,
\* and no region is in two of head, body, legs, ears, tail.
C9_RegionsPartitioned ==
    (Done /\ outcome.kind = "detection" /\ response.result # None) =>
        LET d == outcome.detection[1]
            result == response.result[1]
        IN  /\ \A x \in C9_Regions(result) : Cardinality(C9_Slots(d, x)) <= 1
            /\ (rev = 2 /\ result.objects # None
                  /\ \E x \in SeqRange(result.objects[1]) : x.category = Some(catBody))
               => d.body # None

C10_Contains(o, b) ==
    /\ o.x <= b.x /\ o.y <= b.y
    /\ b.x + b.width <= o.x + o.width
    /\ b.y + b.height <= o.y + o.height

\* the smallest box around the boxes of B
C10_Union(B) ==
    LET minX == MinOf({b.x : b \in B})
        minY == MinOf({b.y : b \in B})
    IN  Box(minX, minY, MaxOf({b.x + b.width : b \in B}) - minX,
                        MaxOf({b.y + b.height : b \in B}) - minY)

C10_BoxesOf(regions) == {r.boundingBox[1] : r \in {q \in regions : q.boundingBox # None}}

\* C10 (as written): for a non-empty region list (result.objects) the overall box of
\* the Detection is the union of all region boxes: x = min x, y = min y, right edge =
\* max x+width, bottom edge = max y+height, and it contains each region box.
C10_OverallIsUnion ==
    (rev = 2 /\ Done /\ outcome.kind = "detection" /\ response.result # None
       /\ response.result[1].objects # None /\ response.result[1].objects[1] # <<>>) =>
        LET d == outcome.detection[1]
            objectBoxes == C10_BoxesOf(SeqRange(response.result[1].objects[1]))
        IN  /\ d.overall.boundingBox = C10_Union(objectBoxes)
            /\ \A b \in objectBoxes : C10_Contains(d.overall.boundingBox, b)

\* o is the smallest box around the boxes of B: it contains each, and each of its
\* four edges is the edge of one of them
C10_SmallestAround(o, B) ==
    /\ \A b \in B : C10_Contains(o, b)
    /\ \E b \in B : b.x = o.x
    /\ \E b \in B : b.y = o.y
    /\ \E b \in B : b.x + b.width = o.x + o.width
    /\ \E b \in B : b.y + b.height = o.y + o.height

\* C10 (as amended): in the transform that reads region lists, the overall box is the
\* union (the smallest box around, with x = min x, y = min y, right edge = max
\* x+width, bottom edge = max y+height) of the boxes of the list the geometry is taken
\* from: fields.DetectedRegions when that array parses and holds a box, else a
\* non-empty result.objects. The transform that reads only the scalar fields keeps
\* the default box of the 1000 x 1000 canvas.
C10_OverallIsUnionOfItsList ==
    (Done /\ outcome.kind = "detection" /\ response.result # None) =>
        LET d == outcome.detection[1]
            result == response.result[1]
            objectBoxes == IF result.objects = None THEN {}
                           ELSE C10_BoxesOf(SeqRange(result.objects[1]))
            items == IF result.fields = None THEN <<>>
                     ELSE result.fields[1].DetectedRegions.items
            parsed == \A i \in 1..Len(items) : items[i] # None
            detectedBoxes == IF parsed THEN C10_BoxesOf({it[1] : it \in SeqRange(items)})
                             ELSE {}
            source == IF detectedBoxes # {} THEN detectedBoxes ELSE objectBoxes
        IN  /\ (rev = 2 /\ source # {}) =>
                  /\ d.overall.boundingBox = C10_Union(source)
                  /\ C10_SmallestAround(d.overall.boundingBox, source)
            /\ rev = 1 =>
                  d.overall.boundingBox = Box(0, 0, DEFAULT_CANVAS, DEFAULT_CANVAS)

C10_Witness ==
    /\ rev = 2 /\ Done /\ outcome.kind = "detection"
    /\ response.result = Some(Result(Some(<<Region(Some(Box(0, 0, 2, 2)), Confidence, Some(catHead)),
                                            Region(Some(Box(3, 1, 2, 4)), Confidence, Some(catLeg))>>),
                                     None))
    /\ outcome.detection[1].overall.boundingBox = Box(0, 0, 5, 5)

\* the value a payload field carries: the primitive itself, or the member of the
\* field object that holds it
C11_StringValue(f) == IF f.k = "bare" THEN f.bare ELSE Coalesce(f.valueString, f.value)

C11_NumberValue(f) == IF f.k = "bare" THEN f.bare ELSE Coalesce(f.valueNumber, f.value)

\* C11: every scalar field the payload holds (VerticalPlacement, Orientation,
\* DetailCount, LegCount, EarSize, TailLength) is in the Detection with exactly the
\* payload's value, the number 0 included, whatever the region list would give.
C11_FieldsCopied ==
    (Done /\ outcome.kind = "detection" /\ response.result # None
          /\ response.result[1].fields # None) =>
        LET d == outcome.detection[1]
            f == response.result[1].fields[1]
        IN  /\ f.VerticalPlacement.k # "undef"
                  => d.verticalPlacement = C11_StringValue(f.VerticalPlacement)
            /\ f.Orientation.k # "undef" => d.orientation = C11_StringValue(f.Orientation)
            /\ f.EarSize.k # "undef" => d.earSize = C11_StringValue(f.EarSize)
            /\ f.DetailCount.k # "undef" => d.detailCount = C11_NumberValue(f.DetailCount)
            /\ f.LegCount.k # "undef" => d.legCount = C11_NumberValue(f.LegCount)
            /\ f.TailLength.k # "undef" => d.tailLength = C11_NumberValue(f.TailLength)

Analyzed == pc = "analyzed"

\* the Detections that differ from d only in head, body, legs, ears, tail or overall
C12_GeometryVariants(d) ==
    {[d EXCEPT !.head = h, !.body = b, !.legs = l, !.ears = e, !.tail = t, !.overall = o] :
        h \in {None, MockDetection.head, Some(BoxRegion(Box(0, 100, 100, 100)))},
        b \in {None, MockDetection.body},
        l \in {None, MockDetection.legs},
        e \in {None, MockDetection.ears, Some(<<Ear(100)>>)},
        t \in {None, MockDetection.tail, Some(BoxRegion(Box(300, 200, 40, 10)))},
        o \in {MockDetection.overall, Overall(68, 0, 100)}}

\* C12: when a direct field (verticalPlacement, orientation, legCount, earSize,
\* tailLength) is present, the outcome of its rule (the trait, or no trait) is fixed
\* by that field alone: Detections that agree on it and differ only in head, body,
\* legs, ears, tail or overall give the same outcome for that rule.
C12_DirectFieldDecides ==
    Analyzed =>
        LET d == pigDetection[1]
        IN  \A v \in C12_GeometryVariants(d) :
              /\ d.verticalPlacement # Undef => evaluatePlacement(v) = evaluatePlacement(d)
              /\ d.orientation # Undef => evaluateOrientation(v) = evaluateOrientation(d)
              /\ d.legCount # Undef => evaluateLegCount(v) = evaluateLegCount(d)
              /\ d.earSize # Undef => evaluateEarSize(v) = evaluateEarSize(d)
              /\ d.tailLength # Undef => evaluateTailLength(v) = evaluateTailLength(d)

\* the fixed order of the rule categories
C13_Order == <<"placement", "orientation", "details", "legs", "ears", "tail">>

C13_Index(category) == CHOOSE i \in 1..Len(C13_Order) : C13_Order[i] = category

\* C13: the trait list is ordered by the fixed category order placement, orientation,
\* details, legs, ears, tail: its categories are a subsequence of that order and none
\* occurs twice.
C13_FixedOrder ==
    Analyzed =>
        LET list == traits[1]
        IN  /\ \A i \in 1..Len(list) : list[i].category \in SeqRange(C13_Order)
            /\ \A i, j \in 1..Len(list) :
                  i < j => C13_Index(list[i].category) < C13_Index(list[j].category)

\* a list that skips the tail and holds the ears after the legs
C13_Witness ==
    /\ Analyzed
    /\ [i \in 1..Len(traits[1]) |-> traits[1][i].category]
          = <<"placement", "orientation", "details", "legs", "ears">>

\* the traits of a list that are of the category
C15_Count(list, category) == Cardinality({i \in 1..Len(list) : list[i].category = category})

\* C15: analyzePigDrawing returns 4 to 6 traits: exactly one for each of placement,
\* orientation, details and legs (also when nothing was detected), at most one for
\* ears and for tail; the list is never empty.
C15_FourToSix ==
    Analyzed =>
        LET list == traits[1]
        IN  /\ Len(list) \in 4..6
            /\ \A c \in {"placement", "orientation", "details", "legs"} :
                  C15_Count(list, c) = 1
            /\ C15_Count(list, "ears") <= 1
            /\ C15_Count(list, "tail") <= 1

\* nothing detected: no head, body, legs, ears or tail
C15_Witness ==
    /\ Analyzed
    /\ pigDetection[1].head = None /\ pigDetection[1].body = None
    /\ pigDetection[1].legs = None /\ pigDetection[1].ears = None
    /\ pigDetection[1].tail = None /\ pigDetection[1].legCount = Undef
    /\ Len(traits[1]) = 4

\* the verdict of the claim for the centroid (y + h/2) / H of a canvas of height H # 0:
\* the comparisons with 0.33 and 0.67 cleared of fractions
C16_Verdict(y, h, H) ==
    LET c == 100 * (2 * y + h)
    IN  IF H > 0
        THEN (IF c < 66 * H THEN sTop ELSE IF c > 134 * H THEN sBottom ELSE sMiddle)
        ELSE (IF c > 66 * H THEN sTop ELSE IF c < 134 * H THEN sBottom ELSE sMiddle)

\* C16: with verticalPlacement absent the placement verdict comes from
\* r = (overall box y + height / 2) / canvas height by strict comparisons: Top iff
\* r < 0.33, Bottom iff r > 0.67, Middle otherwise, so r = 0.33 and r = 0.67 are Middle.
C16_PlacementBoundaries ==
    (Analyzed /\ pigDetection[1].verticalPlacement = Undef
              /\ pigDetection[1].overall.canvas.height # 0) =>
        LET o == pigDetection[1].overall
            verdict == C16_Verdict(o.boundingBox.y, o.boundingBox.height, o.canvas.height)
            trait == traits[1][1]
        IN  /\ trait.category = "placement"
            /\ trait.evidence.key = kPlacement \o verdict
            /\ trait.statement =
                  (IF verdict = sTop THEN PERSONALITY_STATEMENTS.placement.top
                   ELSE IF verdict = sBottom THEN PERSONALITY_STATEMENTS.placement.bottom
                   ELSE PERSONALITY_STATEMENTS.placement.middle)

\* r is exactly 0.33: y = 0, height 66, canvas height 100
C16_Witness ==
    /\ Analyzed /\ pigDetection[1].verticalPlacement = Undef
    /\ pigDetection[1].overall = Overall(0, 66, 100)
    /\ traits[1][1].evidence.key = kPlacement \o sMiddle

\* the leg count of the claim
C17_N(d) ==
    IF d.legCount # Undef THEN d.legCount
    ELSE IF d.legs # None THEN Num(Len(d.legs[1]), 1)
    ELSE Num(0, 1)

\* C17: the legs rule takes N = legCount when present, else the number of leg regions,
\* else 0; the statement is 'four legs' iff N = 4 and 'less than four' for any other
\* N, N > 4 included; the evidence key is legs=N.
C17_LegsRule ==
    Analyzed =>
        LET N == C17_N(pigDetection[1])
            trait == traits[1][4]
        IN  /\ trait.category = "legs"
            /\ trait.statement = (IF N.n = 4 * N.d THEN PERSONALITY_STATEMENTS.legs.four
                                  ELSE PERSONALITY_STATEMENTS.legs.lessThanFour)
            /\ trait.evidence.key = kLegs \o ToStringJS(N)
            /\ trait.evidence.value = N

\* five legs counted by the analyzer beside four leg regions
C17_Witness ==
    /\ Analyzed
    /\ pigDetection[1].legCount = Num(5, 1) /\ pigDetection[1].legs = MockDetection.legs
    /\ traits[1][4].statement = PERSONALITY_STATEMENTS.legs.lessThanFour
    /\ traits[1][4].evidence.key = kLegs \o <<"5">>

\* C18: the details rule always gives one trait, decided by detailCount alone: Many
\* iff detailCount > 5, else Few (5 is Few, 6 is Many); the evidence value is
\* detailCount.
C18_DetailsRule ==
    Analyzed =>
        LET dc == pigDetection[1].detailCount
            many == dc.n > 5 * dc.d
            trait == traits[1][3]
        IN  /\ trait.category = "details"
            /\ trait.evidence.key = kDetails \o (IF many THEN sMany ELSE sFew)
            /\ trait.statement = (IF many THEN PERSONALITY_STATEMENTS.details.many
                                  ELSE PERSONALITY_STATEMENTS.details.few)
            /\ trait.evidence.value = dc

C18_Witness ==
    /\ Analyzed /\ pigDetection[1].detailCount = Num(5, 1)
    /\ traits[1][3].evidence.key = kDetails \o sFew

\* the list holds a trait of the category
HasTrait(list, category) == \E i \in 1..Len(list) : list[i].category = category

\* the ear regions of d that have a box
C19_EarsWithBox(d) == IF d.ears = None THEN <<>> ELSE Filter(d.ears[1], HasBoundingBox)

\* (mean height of the regions) / den > a / b, for den # 0 and b > 0, cleared of
\* fractions
C19_MeanRatioExceeds(regions, den, a, b) ==
    LET sum == SumHeights(regions)
        cnt == Len(regions)
    IN  IF den > 0 THEN b * sum > a * cnt * den ELSE b * sum < a * cnt * den

C19_HeadHasBox(d) == d.head # None /\ d.head[1].boundingBox # None

\* C19: the ears rule gives the ears=Large trait for earSize 'Large' and no trait for
\* 'Normal'; with earSize absent and a head region present it gives the trait iff
\* (mean height of the ear regions) / (head height) > 0.3, strictly: a ratio of
\* exactly 0.3, or an empty ear list, gives no trait.
C19_EarsRule ==
    Analyzed =>
        LET d == pigDetection[1]
            ears == HasTrait(traits[1], "ears")
            valid == C19_EarsWithBox(d)
        IN  /\ d.earSize = Str(sLarge) =>
                  \E i \in 1..Len(traits[1]) :
                      /\ traits[1][i].category = "ears"
                      /\ traits[1][i].evidence.key = kEars \o sLarge
                      /\ traits[1][i].statement = PERSONALITY_STATEMENTS.ears.large
            /\ d.earSize = Str(sNormal) => ~ears
            /\ (d.earSize = Undef /\ C19_HeadHasBox(d)
                  /\ d.head[1].boundingBox[1].height # 0) =>
                  (ears <=> /\ valid # <<>>
                            /\ C19_MeanRatioExceeds(valid, d.head[1].boundingBox[1].height, 3, 10))
            /\ (d.earSize = Undef /\ d.ears \in {None, Some(<<>>)}) => ~ears

\* two ears of height 20 and 40 beside a head of height 100: the ratio is 0.3
C19_Witness ==
    /\ Analyzed /\ pigDetection[1].earSize = Undef
    /\ pigDetection[1].head = Some(BoxRegion(Box(150, 100, 100, 100)))
    /\ pigDetection[1].ears = Some(<<Ear(20), Ear(40)>>)
    /\ ~HasTrait(traits[1], "ears")

C21_RatioExceeds(num, den, a, b) ==
    IF den > 0 THEN b * num > a * den
    ELSE IF den < 0 THEN b * num < a * den
    ELSE num > 0

C21_HasBox(region) == region # None /\ region[1].boundingBox # None

C21_Max(a, b) == IF a > b THEN a ELSE b

\* C21: the tail rule gives the tail=Long trait iff a numeric tailLength is present
\* and greater than 0.4, or no numeric tailLength is present, a tail region exists and
\* max(tail width, tail height) / body width is greater than 0.4 (without a body: /
\* the larger canvas dimension, greater than 0.15); the comparisons are strict, so a
\* ratio on the threshold, or no tail, gives no trait.
C21_TailRule ==
    Analyzed =>
        LET d == pigDetection[1]
            tl == d.tailLength
            expected ==
                IF tl.t = "num" THEN 10 * tl.n > 4 * tl.d
                ELSE /\ C21_HasBox(d.tail)
                     /\ LET tb == d.tail[1].boundingBox[1]
                            len == C21_Max(tb.width, tb.height)
                        IN  IF C21_HasBox(d.body)
                            THEN C21_RatioExceeds(len, d.body[1].boundingBox[1].width, 4, 10)
                            ELSE C21_RatioExceeds(len, C21_Max(d.overall.canvas.width,
                                                               d.overall.canvas.height),
                                                  15, 100)
        IN  /\ HasTrait(traits[1], "tail") <=> expected
            /\ \A i \in 1..Len(traits[1]) :
                  traits[1][i].category = "tail" =>
                      /\ traits[1][i].evidence.key = kTail \o sLong
                      /\ traits[1][i].statement = PERSONALITY_STATEMENTS.tail.long

\* the tail of createMockDetection is 80 long beside a body 200 wide: the ratio is 0.4
C21_Witness ==
    /\ Analyzed /\ pigDetection[1].tailLength = Undef
    /\ pigDetection[1].tail = MockDetection.tail /\ pigDetection[1].body = MockDetection.body
    /\ ~HasTrait(traits[1], "tail")

\* twice the offset of the head centre from the body centre
C22_Offset2(d) ==
    LET hb == d.head[1].boundingBox[1]
        bb == d.body[1].boundingBox[1]
    IN  (2 * hb.x + hb.width) - (2 * bb.x + bb.width)

C22_Key(verdict) == kOrientation \o verdict

\* C22: with orientation absent the orientation rule always gives a trait; with head
\* and body present (body width >= 0) and offset = head centre x - body centre x the
\* verdict is Left iff offset < -0.2 x bodyWidth, Right iff offset > 0.2 x bodyWidth
\* and Front otherwise; with head or body missing the verdict is Front whatever the
\* ear regions are.
C22_OrientationRule ==
    (Analyzed /\ pigDetection[1].orientation = Undef) =>
        LET d == pigDetection[1]
            trait == traits[1][2]
            both == C21_HasBox(d.head) /\ C21_HasBox(d.body)
            bw == d.body[1].boundingBox[1].width
            off2 == C22_Offset2(d)
            left == PERSONALITY_STATEMENTS.orientation.left
            right == PERSONALITY_STATEMENTS.orientation.right
            front == PERSONALITY_STATEMENTS.orientation.front
        IN  /\ trait.category = "orientation"
            /\ trait.evidence.key \in {C22_Key(sLeft), C22_Key(sRight), C22_Key(sFront)}
            /\ trait.statement =
                  (IF trait.evidence.key = C22_Key(sLeft) THEN left
                   ELSE IF trait.evidence.key = C22_Key(sRight) THEN right ELSE front)
            /\ (both /\ bw >= 0) =>
                  /\ trait.evidence.key = C22_Key(sLeft) <=> 5 * off2 < -2 * bw
                  /\ trait.evidence.key = C22_Key(sRight) <=> 5 * off2 > 2 * bw
            /\ ~both => trait.evidence.key = C22_Key(sFront)

\* the head centre is 170 and the body centre 150 beside a body width of 100: the
\* offset is exactly 20% of the body width
C22_Witness ==
    /\ Analyzed /\ pigDetection[1].orientation = Undef
    /\ pigDetection[1].head = Some(BoxRegion(Box(120, 100, 100, 100)))
    /\ pigDetection[1].body = Some(BoxRegion(Box(100, 150, 100, 150)))
    /\ traits[1][2].evidence.key = C22_Key(sFront)

Composed == pc = "composed"

\* the first position from `from` on at which text holds part, 0 if there is none
C23_Find(text, part, from) ==
    LET hits == {at \in from..(Len(text) - Len(part) + 1) :
                    SubSeq(text, at, at + Len(part) - 1) = part}
    IN  IF hits = {} THEN 0 ELSE CHOOSE at \in hits : \A other \in hits : at <= other

RECURSIVE C23_InOrder(_, _, _)
\* the statements occur in text one after the other, from position `from` on
C23_InOrder(text, statements, from) ==
    IF statements = <<>> THEN TRUE
    ELSE LET at == C23_Find(text, statements[1], from)
         IN  at # 0 /\ C23_InOrder(text, Tail(statements), at + Len(statements[1]))

\* the text of the claim for the statements s, one case for each length
C23_Text(s) ==
    CASE Len(s) = 0 -> "Unable to analyze drawing. Please ensure the pig is clearly visible."
      [] Len(s) = 1 -> "You have a " \o s[1]
      [] Len(s) = 2 -> "You " \o s[1] \o " You also " \o s[2]
      [] Len(s) = 3 -> "You " \o s[1] \o " You " \o s[2] \o " Finally, you " \o s[3]
      [] Len(s) = 4 -> "You " \o s[1] \o " You " \o s[2] \o " You " \o s[3]
                           \o " Finally, you " \o s[4]
      [] Len(s) = 5 -> "You " \o s[1] \o " You " \o s[2] \o " You " \o s[3] \o " You " \o s[4]
                           \o " Finally, you " \o s[5]
      [] Len(s) = 6 -> "You " \o s[1] \o " You " \o s[2] \o " You " \o s[3] \o " You " \o s[4]
                           \o " You " \o s[5] \o " Finally, you " \o s[6]

\* C23: generateSummary gives the fixed 'Unable to analyze...' message for no trait,
\* 'You have a s1' for one, 'You s1 You also s2' for two and, for three or more, 'You '
\* + s1..s(n-1) joined by ' You ' + ' Finally, you ' + sn; so from one trait on every
\* statement occurs in the summary, unmodified and in list order.
C23_SummaryForm ==
    Composed =>
        LET s == [i \in 1..Len(traits[1]) |-> traits[1][i].statement]
        IN  /\ summary[1] = C23_Text(s)
            /\ Len(s) >= 1 => C23_InOrder(summary[1], s, 1)

\* three traits: the middle one follows ' You ', the last one ' Finally, you '
C23_Witness ==
    /\ Composed /\ Len(traits[1]) = 3
    /\ C23_Find(summary[1], " Finally, you " \o traits[1][3].statement, 1) # 0

\* the letters a and b are the same up to case
C24_SameLetter(a, b) ==
    \/ a = b
    \/ \E i \in DOMAIN UpperChars :
          (a = UpperChars[i] /\ b = LowerChars[i]) \/ (a = LowerChars[i] /\ b = UpperChars[i])

\* some keyword stands somewhere in the text, letter by letter up to case
C24_Mentions(text, keywords) ==
    \E keyword \in keywords :
        \E at \in 1..(Len(text) - Len(keyword) + 1) :
            \A i \in 1..Len(keyword) : C24_SameLetter(text[at + i - 1], keyword[i])

\* C24: isPigDescription is true iff the description holds, up to letter case, a
\* keyword of the primary subject list (pig, piglet, porcine, swine, hog) or of the
\* anatomy list (snout, curly tail, trotters); it is false for undefined and for the
\* empty string, and a change of letter case never changes the result.
C24_KeywordDecides ==
    pc = "validated" =>
        LET description == pigDetection[1].description
        IN  /\ description \in {Undef, Str(<<>>)} => isPig = Some(FALSE)
            /\ description.t = "str" =>
                  isPig = Some(C24_Mentions(description.s,
                                            {Chars("pig"), Chars("piglet"), Chars("porcine"),
                                             Chars("swine"), Chars("hog"), Chars("snout"),
                                             Chars("curly tail"), Chars("trotters")}))

\* 'DRAWING OF A HOG' is accepted
C24_Witness ==
    /\ pc = "validated"
    /\ pigDetection[1].description = Str(Chars("DRAWING OF A HOG"))
    /\ isPig = Some(TRUE)

\* C25: analyzePigDrawing and generateSummary are total: on every Detection that has
\* its overall box, canvas and detailCount (zero and negative sizes, negative
\* coordinates, a box larger than the canvas, a canvas height or body width of zero
\* and missing regions included) they return a value, never raise: a list of four to
\* six traits and a text.
C25_NeverRaises ==
    /\ pc # "raised"
    /\ pc \in {"analyzed", "composed"} =>
          /\ traits # None
          /\ Len(traits[1]) \in 4..6
          /\ \A i \in 1..Len(traits[1]) :
                traits[1][i].category
                    \in {"placement", "orientation", "details", "legs", "ears", "tail"}
    /\ pc = "composed" => summary # None /\ Len(summary[1]) > 0

\* a canvas without height, no head, and an ear without a box beside one with a box
C25_Witness ==
    /\ pc = "composed"
    /\ pigDetection[1].overall.canvas.height = 0
    /\ pigDetection[1].head = None
    /\ pigDetection[1].ears = Some(<<Ear(50), Region(None, Confidence, None)>>)
    /\ pigDetection[1].earSize = Undef
    /\ HasTrait(traits[1], "ears")

\* what a call that polls alone makes of n non-terminal status responses followed by
\* the response last: its outcome and the number of GETs it sent
C26_Alone(n, last) ==
    IF n = 60
    THEN [outcome |-> Thrown("Timeout", "Analysis timed out after maximum polling attempts",
                             <<>>),
          statusRequests |-> 60]
    ELSE [outcome |->
              IF last.kind = "httpError"
              THEN Thrown("StatusRequest", "Failed to get analysis results: ", <<>>)
              ELSE IF last.status = "Failed"
              THEN Thrown("RemoteFailure", "Analysis failed: ", msgQuota)
              ELSE TransformOutcome(2, last),
          statusRequests |-> n + 1]

\* C26: two analyzeImage calls whose submit, poll and wait steps interleave in any
\* order are independent: the outcome of each and the number of status requests it
\* sent depend on the responses to its own requests only, and are what the call
\* yields when it runs alone.
C26_Independent ==
    \A c \in DOMAIN calls :
        /\ calls[c].statusRequests <= calls[c].nonTerminal + 1
        /\ calls[c].attempt <= calls[c].nonTerminal
        /\ (calls[c].pc = "done" /\ calls[c].requestId # <<>>) =>
              LET alone == C26_Alone(calls[c].nonTerminal, calls[c].response)
              IN  /\ calls[c].outcome = alone.outcome
                  /\ calls[c].statusRequests = alone.statusRequests

\* one call timed out after 60 requests while the other got its result at once
C26_Witness ==
    /\ DOMAIN calls = {1, 2}
    /\ calls[1].pc = "done" /\ calls[1].outcome.error = "Timeout"
    /\ calls[1].statusRequests = 60
    /\ calls[2].pc = "done" /\ calls[2].outcome.kind = "detection"
    /\ calls[2].statusRequests = 1
    /\ calls[1].requestId = calls[2].requestId


----------------------------------------------------------------------------
\* the description is a text that names a pig or a part of one
C27_NamesPig(description) ==
    /\ description.t = "str"
    /\ C24_Mentions(description.s,
                    {Chars("pig"), Chars("piglet"), Chars("porcine"), Chars("swine"),
                     Chars("hog"), Chars("snout"), Chars("curly tail"), Chars("trotters")})

\* the Detection analyzeImage returned has a description that passes both gates
C27_Accepted ==
    /\ outcome.kind = "detection"
    /\ pigDetection = outcome.detection
    /\ Truthy(Get(pigDetection).description)
    /\ C27_NamesPig(Get(pigDetection).description)
    /\ isPig = Some(TRUE)

\* the validation gates turned the returned Detection down
C27_Rejected ==
    /\ outcome.kind = "detection"
    /\ \/ ~Truthy(Get(outcome.detection).description)
       \/ ~C27_NamesPig(Get(outcome.detection).description)

\* C27: in POST /api/analyze traits are inferred only from a Detection that
\* analyzeImage returned and whose description is non-empty and accepted by
\* isPigDescription, the summary is composed only from inferred traits, and a
\* result is saved only of that composed summary and those traits (acquire,
\* validate, infer, compose, save in that order); when the acquisition fails the
\* response is a 500 and when the validation rejects it is a 400, and in both
\* cases nothing is saved; a 200 is answered only after the save.
C27_RouteOrder ==
    /\ traits /= None => C27_Accepted /\ Get(traits) = analyzePigDrawing(Get(pigDetection))
    /\ summary /= None => traits /= None /\ Get(summary) = generateSummary(Get(traits))
    /\ saved /= <<>> =>
          /\ summary /= None
          /\ saved = <<[traits |-> Get(traits), summary |-> Get(summary),
                        description |-> Get(pigDetection).description]>>
    /\ outcome.kind = "error" =>
          /\ saved = <<>> /\ traits = None /\ summary = None
          /\ pc = "responded" /\ Get(httpResponse).status = 500
    /\ C27_Rejected =>
          /\ saved = <<>> /\ traits = None /\ summary = None
          /\ pc = "responded" => Get(httpResponse).status = 400
          /\ pc \in {"acquired", "responded"}
    /\ (httpResponse /= None /\ Get(httpResponse).status = 200) => saved /= <<>>
    /\ pc = "responded" => httpResponse /= None

\* a pig drawing went through all five steps and was answered with 200
C27_Witness ==
    /\ pc = "responded"
    /\ Get(httpResponse).status = 200
    /\ Len(saved) = 1
    /\ C27_Accepted

----------------------------------------------------------------------------
\* the closed set of Values of a category other than legs
C28_Values(category) ==
    CASE category = "placement" -> {sTop, sMiddle, sBottom}
      [] category = "orientation" -> {sLeft, sRight, sFront}
      [] category = "details" -> {sMany, sFew}
      [] category = "ears" -> {sLarge}
      [] category = "tail" -> {sLong}
      [] OTHER -> {}

\* the lookup table: the statement of a Value of a category
C28_Statement(category, value) ==
    CASE value = sTop -> PERSONALITY_STATEMENTS.placement.top
      [] value = sMiddle -> PERSONALITY_STATEMENTS.placement.middle
      [] value = sBottom -> PERSONALITY_STATEMENTS.placement.bottom
      [] value = sLeft -> PERSONALITY_STATEMENTS.orientation.left
      [] value = sRight -> PERSONALITY_STATEMENTS.orientation.right
      [] value = sFront -> PERSONALITY_STATEMENTS.orientation.front
      [] value = sMany -> PERSONALITY_STATEMENTS.details.many
      [] value = sFew -> PERSONALITY_STATEMENTS.details.few
      [] value = sLarge -> PERSONALITY_STATEMENTS.ears.large
      [] value = sLong -> PERSONALITY_STATEMENTS.tail.long

\* the key of the trait is '<category>=<Value>' for a Value of the category's closed
\* set (for legs: the count) and the statement is the table's statement of that Value
C28_TraitConsistent(trait) ==
    IF trait.category = "legs"
    THEN /\ IsNumber(trait.evidence.value)
         /\ trait.evidence.key = Chars("legs=") \o ToStringJS(trait.evidence.value)
         /\ trait.statement = IF trait.evidence.value = Num(4, 1)
                              THEN PERSONALITY_STATEMENTS.legs.four
                              ELSE PERSONALITY_STATEMENTS.legs.lessThanFour
    ELSE \E value \in C28_Values(trait.category) :
            /\ trait.evidence.key = Chars(trait.category) \o <<"=">> \o value
            /\ trait.statement = C28_Statement(trait.category, value)

\* C28: every trait is internally consistent for every Detection the gateway can
\* produce: its evidence key is '<category>=<Value>' with Value in the closed set
\* of that category (placement: Top, Middle, Bottom; orientation: Left, Right,
\* Front; details: Many, Few; ears: Large; tail: Long; legs: the count) and its
\* statement is the lookup-table statement of exactly that Value.
C28_TraitsConsistent ==
    (pc = "analyzed" /\ pigDetection[1] \in TransformOutputs \cup UnvalidatedOutputs)
        => \A i \in 1..Len(traits[1]) : C28_TraitConsistent(traits[1][i])

----------------------------------------------------------------------------
\* the statement the rules engine emitted for the legs of the participant
C29_LegsStatement(participant) ==
    LET traitList == saved[participant.id].traits
    IN  traitList[CHOOSE i \in 1..Len(traitList) : traitList[i].category = "legs"].statement

\* how many participants got this legs statement from the rules engine
C29_Emitted(statement) ==
    Cardinality({i \in 1..Len(participants) : C29_LegsStatement(participants[i]) = statement})

\* C29: the group tallies agree with the leg policy of the rules engine: the
\* participants tallied under 'four' are those for whose leg count N (carried in
\* the evidence key legs=N) the engine emitted the 'four legs' statement, and those
\* tallied under 'lessThanFour' are those for whom it emitted the 'less than four'
\* statement.
C29_TalliesAgree ==
    pc = "results" =>
        /\ Get(tallies).legs.four = C29_Emitted(PERSONALITY_STATEMENTS.legs.four)
        /\ Get(tallies).legs.lessThanFour = C29_Emitted(PERSONALITY_STATEMENTS.legs.lessThanFour)

----------------------------------------------------------------------------
\* C30: the per-IP rate limiter of POST /api/analyze keeps the token count of
\* every bucket within 0..10 after any sequence of requests and clock readings;
\* an admitted request leaves its bucket with exactly one token less than the
\* bucket held for it, a request rejected with 429 leaves the bucket as it was
\* (empty), and since a bucket was last filled (created or refilled) at most 10
\* requests of its IP have been admitted.
C30_TokensBounded ==
    /\ \A ip \in DOMAIN rateLimitMap :
          /\ rateLimitMap[ip].tokens \in 0..10
          /\ admitted[ip] \in 0..10
          /\ rateLimitMap[ip].lastRefill <= now
    /\ lastRequest /= None =>
          LET request == Get(lastRequest)
          IN  IF request.status = 429
              THEN /\ rateLimitMap[request.ip].tokens = request.available
                   /\ request.available = 0
                   /\ httpResponse = Some(JsonResponse(429, "Rate limit exceeded"))
              ELSE /\ rateLimitMap[request.ip].tokens = request.available - 1
                   /\ httpResponse = None

\* the eleventh request of an IP within the window is turned away while a request
\* of another IP is still served, and a refill has happened
C30_Witness ==
    /\ lastRequest /= None
    /\ Get(lastRequest).status = 429
    /\ admitted[Get(lastRequest).ip] = 10
    /\ \E ip \in DOMAIN rateLimitMap :
          rateLimitMap[ip].tokens > 0 /\ rateLimitMap[ip].lastRefill > RATE_LIMIT_WINDOW_MS
====
